---- MODULE Spec2Model ----
(***************************************************************************)
(* Retrieval-and-synthesis pipeline of the InsightPocket AI service:       *)
(* the document store (rag_docs / rag_doc_chunks), the chunker, ingest,    *)
(* the daily report pipeline, similarity search, and the chat and custom   *)
(* report chains that use retrieval.                                       *)
(*                                                                         *)
(* Texts are sequences of one-character strings so that the chunker can    *)
(* index them; document ids and titles are strings.                        *)
(***************************************************************************)
EXTENDS Integers, Sequences, FiniteSets, TLC

(***************************************************************************)
(* Bounds of the model.                                                    *)
(***************************************************************************)
\* chunk_max_chars / chunk_overlap of the ingest calls, scaled down from
\* 1200 / 120 so that short texts already produce several chunks
ChunkMaxChars == 4
ChunkOverlap == 1
\* total number of run_daily_report invocations in one behaviour
MaxRuns == 2
\* largest top_k of a similarity search
MaxTopK == 2
\* number of store operations in one behaviour
MaxOps == 3
\* number of custom report generations in one behaviour
MaxReports == 1

\* the longest text given to the chunker on its own
MaxTextLen == 8
\* number of iterations of the hard-split loop that are followed
MaxSplitSteps == 4

\* Python's None, for string-valued, date-valued and integer-valued fields
None == "None"
NoDate == [year |-> 0, month |-> 0, day |-> 0]
Absent == -1

(***************************************************************************)
(* settings.py                                                             *)
(***************************************************************************)
DOC_TYPE_RULE == 0
DOC_TYPE_DAILY == 1
DOC_TYPE_CUSTOM == 2

(***************************************************************************)
(* Python string primitives used by the chunker.                           *)
(***************************************************************************)
NL == "\n"
SP == " "

\* str.isspace for the characters of the model's alphabet
IsSpace(c) == c \in {SP, NL}

RECURSIVE LStrip(_)
LStrip(s) ==
  IF s = <<>> THEN <<>>
  ELSE IF IsSpace(Head(s)) THEN LStrip(Tail(s)) ELSE s

RECURSIVE RStrip(_)
RStrip(s) ==
  IF s = <<>> THEN <<>>
  ELSE IF IsSpace(s[Len(s)]) THEN RStrip(SubSeq(s, 1, Len(s) - 1)) ELSE s

\* str.strip()
Strip(s) == RStrip(LStrip(s))

\* s[:n] for n >= 0
PyPrefix(s, n) == SubSeq(s, 1, IF n < Len(s) THEN n ELSE Len(s))

\* s[k:] for any integer k (a negative k counts from the end)
PySliceFrom(s, k) ==
  IF k >= 0 THEN SubSeq(s, k + 1, Len(s))
  ELSE IF -k >= Len(s) THEN s
  ELSE SubSeq(s, Len(s) + k + 1, Len(s))

\* number of leading newlines of s
RECURSIVE NewlineRun(_)
NewlineRun(s) ==
  IF s = <<>> \/ Head(s) # NL THEN 0 ELSE 1 + NewlineRun(Tail(s))

\* re.split(r"\n{2,}", s): cur is the piece being collected
RECURSIVE SplitParasFrom(_, _)
SplitParasFrom(s, cur) ==
  IF s = <<>> THEN <<cur>>
  ELSE IF NewlineRun(s) >= 2
       THEN <<cur>> \o SplitParasFrom(SubSeq(s, NewlineRun(s) + 1, Len(s)), <<>>)
       ELSE SplitParasFrom(Tail(s), Append(cur, Head(s)))

SplitParas(s) == SplitParasFrom(s, <<>>)

(***************************************************************************)
(* rag_store._simple_md_chunk (VectorStore._chunk_markdown is the same     *)
(* code).  The loop state is the pair [chunks, buf].                       *)
(***************************************************************************)
\* variant: flush_buf forgets the buffer without appending it
flush_buf_drops(st) == [chunks |-> st.chunks, buf |-> <<>>]

flush_buf(st) ==
  [chunks |-> IF Strip(st.buf) # <<>> THEN Append(st.chunks, Strip(st.buf))
              ELSE st.chunks,
   buf |-> <<>>]

\* one iteration of "while len(p) > max_chars": part = p[:max_chars];
\* chunks.append(part.strip()); p = p[max_chars - overlap:]
HardSplitStep(p, chunks, max_chars, overlap) ==
  [p |-> PySliceFrom(p, max_chars - overlap),
   chunks |-> Append(chunks, Strip(PyPrefix(p, max_chars)))]

\* while len(p) > max_chars: emit p[:max_chars].strip(); p = p[max_chars - overlap:]
\* The result is [chunks, buf] with buf the final remainder.
\* variant: the slices do not overlap (p = p[max_chars:])
RECURSIVE HardSplit_no_overlap(_, _, _, _)
HardSplit_no_overlap(p, chunks, max_chars, overlap) ==
  IF Len(p) > max_chars
  THEN HardSplit_no_overlap(PySliceFrom(p, max_chars),
                            Append(chunks, Strip(PyPrefix(p, max_chars))),
                            max_chars, overlap)
  ELSE [chunks |-> chunks, buf |-> p]

RECURSIVE HardSplit(_, _, _, _)
HardSplit(p, chunks, max_chars, overlap) ==
  IF Len(p) > max_chars
  THEN HardSplit(PySliceFrom(p, max_chars - overlap),
                 Append(chunks, Strip(PyPrefix(p, max_chars))),
                 max_chars, overlap)
  ELSE [chunks |-> chunks, buf |-> p]

\* one iteration of "for p in paras"
ChunkStep(st, para, max_chars, overlap) ==
  LET p == Strip(para) IN
  IF p = <<>> THEN st
  ELSE IF Len(st.buf) + Len(p) + 2 > max_chars
       THEN HardSplit(p, flush_buf(st).chunks, max_chars, overlap)
       ELSE [chunks |-> st.chunks,
             buf |-> IF st.buf # <<>> THEN Strip(st.buf \o <<NL, NL>> \o p) ELSE p]

RECURSIVE ChunkLoop(_, _, _, _)
ChunkLoop(paras, st, max_chars, overlap) ==
  IF paras = <<>> THEN st
  ELSE ChunkLoop(Tail(paras), ChunkStep(st, Head(paras), max_chars, overlap),
                 max_chars, overlap)

_simple_md_chunk(md, max_chars, overlap) ==
  LET text == Strip(md) IN
  IF text = <<>> THEN <<>>
  ELSE flush_buf(ChunkLoop(SplitParas(text), [chunks |-> <<>>, buf |-> <<>>],
                           max_chars, overlap)).chunks


(***************************************************************************)
(* Dates and the identifiers derived from them.                            *)
(***************************************************************************)
Day(y, m, d) == [year |-> y, month |-> m, day |-> d]

\* the report dates of the model
ReportDays == {Day(2026, 1, 12), Day(2026, 11, 2)}

\* a <= b on datetime.date
DateLE(a, b) ==
  \/ a.year < b.year
  \/ a.year = b.year /\ a.month < b.month
  \/ a.year = b.year /\ a.month = b.month /\ a.day <= b.day

Pad2(n) == IF n < 10 THEN "0" \o ToString(n) ELSE ToString(n)

\* date.isoformat(): YYYY-MM-DD (years of the model have four digits)
isoformat(d) == ToString(d.year) \o "-" \o Pad2(d.month) \o "-" \o Pad2(d.day)

\* variant: the id keeps the year of the report date only
doc_id_for_daily_year_only(report_date) == "daily_" \o ToString(report_date.year)

doc_id_for_daily(report_date) == "daily_" \o isoformat(report_date)

\* title of save_daily_report: year, month and day unpadded with their suffixes
DailyTitle(d) ==
  ToString(d.year) \o "y " \o ToString(d.month) \o "m " \o ToString(d.day) \o "d report"

(***************************************************************************)
(* The tables.  rag_docs and rag_doc_chunks are sequences of rows in       *)
(* insertion order, so that a second row with the same key is              *)
(* representable.  chunk_id (a fresh uuid4 per row) and token_count (always*)
(* NULL) carry no information and are left out of the chunk rows.          *)
(***************************************************************************)
DocRow(doc_id, doc_type_id, title, body_md, report_date, now) ==
  [doc_id |-> doc_id, doc_type_id |-> doc_type_id, title |-> title,
   body_md |-> body_md, report_date |-> report_date, created_at |-> now]

DocsWithId(docs, doc_id) == LET P(r) == r.doc_id = doc_id IN SelectSeq(docs, P)

\* variant: an existing row is left as it is
upsert_report_doc_insert_only(docs, doc_id, doc_type_id, title, body_md, report_date, now) ==
  IF \E i \in 1..Len(docs) : docs[i].doc_id = doc_id
  THEN docs
  ELSE Append(docs, DocRow(doc_id, doc_type_id, title, body_md, report_date, now))

\* rag_store.upsert_report_doc: MERGE ... ON (t.doc_id = s.doc_id), then commit
upsert_report_doc(docs, doc_id, doc_type_id, title, body_md, report_date, now) ==
  IF \E i \in 1..Len(docs) : docs[i].doc_id = doc_id
  THEN [i \in 1..Len(docs) |->
          IF docs[i].doc_id = doc_id
          THEN DocRow(doc_id, doc_type_id, title, body_md, report_date, now)
          ELSE docs[i]]
  ELSE Append(docs, DocRow(doc_id, doc_type_id, title, body_md, report_date, now))

\* rag_store.delete_chunks_for_doc: DELETE ... WHERE doc_id = :doc_id, then commit
delete_chunks_for_doc(chunk_rows, doc_id) ==
  LET Keep(r) == r.doc_id # doc_id IN SelectSeq(chunk_rows, Keep)

\* committed chunk rows of a document, in table order
ChunksOfDoc(chunk_rows, doc_id) ==
  LET Mine(r) == r.doc_id = doc_id IN SelectSeq(chunk_rows, Mine)

(***************************************************************************)
(* Embedding provider.  Vectors have norm 5, so that cosine values are     *)
(* multiples of 1/25.  The provider is a fixed function of the text.       *)
(***************************************************************************)
EmbeddingVectors == << <<5, 0>>, <<4, 3>>, <<3, 4>>, <<0, 5>> >>

CharCode(c) ==
  CASE c = "a" -> 1 [] c = "b" -> 2 [] c = "c" -> 3 [] c = "d" -> 4
    [] c = "e" -> 5 [] c = "f" -> 6 [] OTHER -> 0

\* the characters' codes weighted by their positions
RECURSIVE CodeSum(_)
CodeSum(s) ==
  IF s = <<>> THEN 0
  ELSE Len(s) * CharCode(s[Len(s)]) + CodeSum(SubSeq(s, 1, Len(s) - 1))

\* OpenAIEmbeddings.embed_query
embed_query(text) == EmbeddingVectors[(CodeSum(text) % Len(EmbeddingVectors)) + 1]

\* OpenAIEmbeddings.embed_documents: one vector per text, in order
embed_documents(texts) == [i \in 1..Len(texts) |-> embed_query(texts[i])]

\* rows built by insert_chunks_with_embeddings: enumerate(zip(chunks, vectors))
ChunkRows(doc_id, chunks, vectors) ==
  [i \in 1..(IF Len(chunks) < Len(vectors) THEN Len(chunks) ELSE Len(vectors)) |->
     [doc_id |-> doc_id, chunk_index |-> i - 1, content |-> chunks[i],
      embedding |-> vectors[i]]]


(***************************************************************************)
(* VectorStore (core/vectorstore.py): documents and chunks.                *)
(***************************************************************************)
\* VectorStore._chunk_markdown: the code of rag_store._simple_md_chunk
_chunk_markdown(md, max_chars, overlap) == _simple_md_chunk(md, max_chars, overlap)

\* variant: the INSERT is not guarded by the row count of the UPDATE
upsert_document_always_insert(docs, doc_id, doc_type_id, title, body_md, report_date, now) ==
  Append(docs, DocRow(doc_id, doc_type_id, title, body_md, report_date, now))

\* VectorStore.upsert_document: UPDATE ... WHERE doc_id = :doc_id; INSERT when
\* cur.rowcount = 0; commit
upsert_document(docs, doc_id, doc_type_id, title, body_md, report_date, now) ==
  LET updated == [i \in 1..Len(docs) |->
                    IF docs[i].doc_id = doc_id
                    THEN DocRow(doc_id, doc_type_id, title, body_md, report_date, now)
                    ELSE docs[i]]
      rowcount == Len(DocsWithId(docs, doc_id))
  IN IF rowcount = 0
     THEN Append(updated, DocRow(doc_id, doc_type_id, title, body_md, report_date, now))
     ELSE updated

\* variant: the DELETE removes nothing
delete_chunks_skipped(chunk_rows, doc_id) == chunk_rows

\* VectorStore.delete_chunks: DELETE ... WHERE doc_id = :doc_id, then commit
delete_chunks(chunk_rows, doc_id) ==
  LET Keep(r) == r.doc_id # doc_id IN SelectSeq(chunk_rows, Keep)

\* variant: the close commits the open transaction
conn_close_commits(uncommitted) == uncommitted

\* Connection.close() ends the open transaction: python-oracledb rolls the
\* uncommitted rows back, none of them becomes committed
conn_close(uncommitted) == <<>>


\* VectorStore.ingest_document: chunk, delete_chunks (commits), then
\* insert_chunks_with_embeddings: return 0 without chunks, else embed all chunks
\* in one call, execute one INSERT per row, commit.  fault names the call that
\* fails ("delete", "embed", "insert" after k rows, "commit" of the rows);
\* uncommitted holds the rows a failure leaves on the connection.
ingest_document(chunk_rows, doc_id, body_md, chunk_max_chars, chunk_overlap, fault, k) ==
  LET new_chunks == _chunk_markdown(body_md, chunk_max_chars, chunk_overlap)
      kept == delete_chunks(chunk_rows, doc_id)
      rows == ChunkRows(doc_id, new_chunks, embed_documents(new_chunks))
      Outcome(committed, open, e, n) ==
        [chunk_rows |-> committed, uncommitted |-> open, error |-> e, chunk_count |-> n]
  IN
  IF fault = "delete" THEN Outcome(chunk_rows, <<>>, "STORAGE", Absent)
  ELSE IF new_chunks = <<>> THEN Outcome(kept, <<>>, None, 0)
  ELSE IF fault = "embed" THEN Outcome(kept, <<>>, "EMBEDDING", Absent)
  ELSE IF fault = "insert"
       THEN Outcome(kept, SubSeq(rows, 1, IF k < Len(rows) THEN k ELSE Len(rows) - 1),
                    "STORAGE", Absent)
  ELSE IF fault = "commit" THEN Outcome(kept, rows, "STORAGE", Absent)
  ELSE Outcome(kept \o rows, <<>>, None, Len(rows))

\* the calls of ingest_document that can fail
IngestFaults == {"none", "delete", "embed", "insert", "commit"}

\* the numbers of rows the loop "for r in rows: cur.execute(sql, r)" can have
\* inserted when one of its INSERTs fails
InsertedBeforeFault(body_md, fault) ==
  IF fault = "insert"
  THEN 0..(Len(_chunk_markdown(body_md, ChunkMaxChars, ChunkOverlap)) - 1)
  ELSE {0}


(***************************************************************************)
(* VectorStore.similarity_search.  Distances and similarities are counted  *)
(* in units of 1 / CosineScale.                                            *)
(***************************************************************************)
\* squared norm of the vectors of the model: cosine(u, v) = Dot(u, v) / CosineScale
CosineScale == 25

Dot(u, v) == u[1] * v[1] + u[2] * v[2]

\* VECTOR_DISTANCE(c.embedding, :query_vec, COSINE) = 1 - cosine
VECTOR_DISTANCE(u, v) == CosineScale - Dot(u, v)

\* FROM rag_doc_chunks c JOIN rag_docs d ON c.doc_id = d.doc_id, with the
\* selected columns
RECURSIVE JoinChunksDocs(_, _, _)
JoinChunksDocs(chunk_rows, docs, query_vec) ==
  IF chunk_rows = <<>> THEN <<>>
  ELSE LET c == Head(chunk_rows)
           ds == DocsWithId(docs, c.doc_id)
       IN [j \in 1..Len(ds) |->
             [content |-> c.content, doc_id |-> c.doc_id, title |-> ds[j].title,
              doc_type_id |-> ds[j].doc_type_id, report_date |-> ds[j].report_date,
              distance |-> VECTOR_DISTANCE(c.embedding, query_vec)]]
          \o JoinChunksDocs(Tail(chunk_rows), docs, query_vec)

\* the WHERE clause: each filter is added only when its argument is truthy; a
\* comparison with a NULL report_date is not true
PassesWhere(r, doc_type_ids, date_from, date_to) ==
  /\ doc_type_ids # <<>>
       => \E i \in 1..Len(doc_type_ids) : r.doc_type_id = doc_type_ids[i]
  /\ date_from # NoDate
       => r.report_date # NoDate /\ DateLE(date_from, r.report_date)
  /\ date_to # NoDate
       => r.report_date # NoDate /\ DateLE(r.report_date, date_to)

\* variant: ORDER BY distance DESC
NearestOf_farthest(rows, remaining) ==
  {i \in remaining : \A j \in remaining : rows[j].distance <= rows[i].distance}

\* the rows that ORDER BY distance ASC may put first among the remaining ones
NearestOf(rows, remaining) ==
  {i \in remaining : \A j \in remaining : rows[i].distance <= rows[j].distance}

\* ORDER BY distance ASC FETCH FIRST :top_k ROWS ONLY: the possible results, as
\* sequences of row numbers; rows at the same distance come in any order
RECURSIVE OrderByFetchFirst(_, _, _)
OrderByFetchFirst(rows, remaining, top_k) ==
  IF top_k <= 0 \/ remaining = {} THEN { <<>> }
  ELSE UNION { { <<i>> \o rest :
                 rest \in OrderByFetchFirst(rows, remaining \ {i}, top_k - 1) } :
               i \in NearestOf(rows, remaining) }

\* the dict built for a fetched row: "similarity": 1 - float(row[5])
SearchResult(r) ==
  [content |-> r.content, doc_id |-> r.doc_id, title |-> r.title,
   doc_type_id |-> r.doc_type_id, report_date |-> r.report_date,
   distance |-> r.distance, similarity |-> CosineScale - r.distance]

\* the rows of the join that pass the WHERE clause
WhereRows(docs, chunk_rows, query, doc_type_ids, date_from, date_to) ==
  LET Where(r) == PassesWhere(r, doc_type_ids, date_from, date_to)
  IN SelectSeq(JoinChunksDocs(chunk_rows, docs, embed_query(query)), Where)

\* VectorStore.similarity_search: the lists it can return
similarity_search(docs, chunk_rows, query, top_k, doc_type_ids, date_from, date_to) ==
  LET rows == WhereRows(docs, chunk_rows, query, doc_type_ids, date_from, date_to)
  IN { [i \in 1..Len(picked) |-> SearchResult(rows[picked[i]])] :
       picked \in OrderByFetchFirst(rows, 1..Len(rows), top_k) }


(***************************************************************************)
(* RAGService (core/rag.py).                                               *)
(***************************************************************************)
\* min_similarity = 0.7 of search_relevant_documents, in tenths
MinSimilarityTenths == 7

\* the comprehension over type_map: known names in the order given
RECURSIVE MapDocTypes(_)
MapDocTypes(doc_types) ==
  IF doc_types = <<>> THEN <<>>
  ELSE LET dt == Head(doc_types)
           id == CASE dt = "RULE" -> <<DOC_TYPE_RULE>>
                   [] dt = "DAILY" -> <<DOC_TYPE_DAILY>>
                   [] dt = "CUSTOM" -> <<DOC_TYPE_CUSTOM>>
                   [] OTHER -> <<>>
       IN id \o MapDocTypes(Tail(doc_types))

\* r.get("similarity", 0) >= min_similarity
AboveThreshold(r) == 10 * r.similarity >= MinSimilarityTenths * CosineScale

\* RAGService.search_relevant_documents: the lists it can return
search_relevant_documents(docs, chunk_rows, query, doc_types, date_from, date_to, top_k) ==
  LET doc_type_ids == IF doc_types # <<>> THEN MapDocTypes(doc_types) ELSE <<>>
  IN { SelectSeq(results, AboveThreshold) :
       results \in similarity_search(docs, chunk_rows, query, top_k, doc_type_ids,
                                     date_from, date_to) }

IsLeap(y) == (y % 4 = 0 /\ y % 100 # 0) \/ y % 400 = 0

DaysInMonth(y, m) ==
  CASE m \in {4, 6, 9, 11} -> 30
    [] m = 2 -> IF IsLeap(y) THEN 29 ELSE 28
    [] OTHER -> 31

\* d - timedelta(days = n)
RECURSIVE DateMinusDays(_, _)
DateMinusDays(d, n) ==
  IF n = 0 THEN d
  ELSE IF d.day > 1 THEN DateMinusDays(Day(d.year, d.month, d.day - 1), n - 1)
  ELSE IF d.month > 1
       THEN DateMinusDays(Day(d.year, d.month - 1, DaysInMonth(d.year, d.month - 1)),
                          n - 1)
  ELSE DateMinusDays(Day(d.year - 1, 12, 31), n - 1)

\* RAGService.search_recent_daily_reports; today is datetime.now().date()
search_recent_daily_reports(docs, chunk_rows, query, days, top_k, today) ==
  search_relevant_documents(docs, chunk_rows, query, <<"DAILY">>,
                            DateMinusDays(today, days), today, top_k)

\* content[:n] of a context block followed by the marker "..."
Preview(content, n) == PyPrefix(content, n) \o <<".", ".", ".">>

\* variant: the retrieved reports come before the attached data
ChatContext_reports_first(attached_cards, recent_docs) ==
  (IF recent_docs # <<>>
   THEN << [tag |-> "[RELEVANT_PAST_INSIGHTS]",
            lines |-> [i \in 1..Len(recent_docs) |->
                         [title |-> recent_docs[i].title,
                          report_date |-> recent_docs[i].report_date,
                          content |-> Preview(recent_docs[i].content, 500)]]] >>
   ELSE <<>>)
  \o
  (IF attached_cards # <<>>
   THEN << [tag |-> "[USER_ATTACHED_DATA]",
            lines |-> [i \in 1..Len(attached_cards) |->
                         [title |-> attached_cards[i].title, report_date |-> NoDate,
                          content |-> attached_cards[i].lines]]] >>
   ELSE <<>>)

\* RAGService.build_context_for_chat with use_recent_reports = True: the
\* context_parts for one list of retrieved chunks, in the order of the list.
\* No part is the string "": the list <<>> stands for the context "".
ChatContext(attached_cards, recent_docs) ==
  (IF attached_cards # <<>>
   THEN << [tag |-> "[USER_ATTACHED_DATA]",
            lines |-> [i \in 1..Len(attached_cards) |->
                         [title |-> attached_cards[i].title, report_date |-> NoDate,
                          content |-> attached_cards[i].lines]]] >>
   ELSE <<>>)
  \o
  (IF recent_docs # <<>>
   THEN << [tag |-> "[RELEVANT_PAST_INSIGHTS]",
            lines |-> [i \in 1..Len(recent_docs) |->
                         [title |-> recent_docs[i].title,
                          report_date |-> recent_docs[i].report_date,
                          content |-> Preview(recent_docs[i].content, 500)]]] >>
   ELSE <<>>)

\* RAGService.build_context_for_chat: the contexts it can return
build_context_for_chat(docs, chunk_rows, user_query, attached_cards, max_context_chunks, today) ==
  { ChatContext(attached_cards, recent_docs) :
    recent_docs \in search_recent_daily_reports(docs, chunk_rows, user_query, 14,
                                                max_context_chunks, today) }

\* RAGService.search_similar_custom_reports
search_similar_custom_reports(docs, chunk_rows, query, top_k) ==
  search_relevant_documents(docs, chunk_rows, query, <<"CUSTOM">>, NoDate, NoDate, top_k)

\* RAGService.build_context_for_custom_report with use_similar_reports = True:
\* the context_parts for one list of retrieved chunks
CustomReportContext(attached_cards, similar_reports) ==
  (IF attached_cards # <<>>
   THEN << [tag |-> "[CURRENT_DATA]",
            lines |-> [i \in 1..Len(attached_cards) |->
                         [title |-> attached_cards[i].title, report_date |-> NoDate,
                          content |-> attached_cards[i].lines]]] >>
   ELSE <<>>)
  \o
  (IF similar_reports # <<>>
   THEN << [tag |-> "[SIMILAR_PAST_REPORTS_FOR_REFERENCE]",
            lines |-> [i \in 1..Len(similar_reports) |->
                         [title |-> similar_reports[i].title,
                          report_date |-> similar_reports[i].report_date,
                          content |-> Preview(similar_reports[i].content, 600)]]] >>
   ELSE <<>>)

\* RAGService.build_context_for_custom_report: the context_parts it can build
build_context_for_custom_report(docs, chunk_rows, user_request, attached_cards, max_similar_reports) ==
  { CustomReportContext(attached_cards, similar_reports) :
    similar_reports \in search_similar_custom_reports(docs, chunk_rows, user_request,
                                                      max_similar_reports) }

\* sep.join(texts); a text is a sequence of pieces (characters, titles, tags)
RECURSIVE JoinTexts(_, _)
JoinTexts(texts, sep) ==
  IF texts = <<>> THEN <<>>
  ELSE IF Len(texts) = 1 THEN texts[1]
  ELSE texts[1] \o sep \o JoinTexts(Tail(texts), sep)

\* the text of one entry of a part: a card ("[CARD] title" and its lines, each
\* after "  - ") or a retrieved chunk ("[PAST_REPORT] title (date)" and the
\* preview of its content)
FormatEntry(tag, e) ==
  CASE tag = "[USER_ATTACHED_DATA]" ->
         <<"[CARD] ", e.title, NL>>
           \o JoinTexts([i \in 1..Len(e.content) |-> <<"  - ", e.content[i]>>], <<NL>>)
    [] tag = "[CURRENT_DATA]" ->
         <<"[DATA] ", e.title, NL>>
           \o JoinTexts([i \in 1..Len(e.content) |-> <<"  - ", e.content[i]>>], <<NL>>)
    [] tag = "[RELEVANT_PAST_INSIGHTS]" ->
         <<"[PAST_REPORT] ", e.title, " (",
           IF e.report_date = NoDate THEN None ELSE isoformat(e.report_date),
           ")", NL>> \o e.content
    [] OTHER ->
         <<"[REFERENCE_REPORT] ", e.title, NL>> \o e.content

\* the string a context builder returns for its context_parts: "" without a
\* part, else "\n\n---\n\n".join(context_parts)
JoinContextParts(context_parts) ==
  IF context_parts = <<>> THEN <<>>
  ELSE JoinTexts([i \in 1..Len(context_parts) |->
                    <<context_parts[i].tag, NL>>
                      \o JoinTexts([j \in 1..Len(context_parts[i].lines) |->
                                      FormatEntry(context_parts[i].tag,
                                                  context_parts[i].lines[j])],
                                   <<NL, NL>>)],
                 <<NL, NL, "---", NL, NL>>)


(***************************************************************************)
(* The chat chain (chains/chat.py) and the custom report chain             *)
(* (chains/custom_report.py, services/report_service.py).  An operator     *)
(* yields the set of outcomes the call can have; retrieval_fault and fault *)
(* name the collaborator call that fails, "none" when every call answers.  *)
(***************************************************************************)
\* the exception a failing retrieval raises: embed_query or cur.execute
RetrievalError(retrieval_fault) ==
  IF retrieval_fault = "embed" THEN "QUERY_EMBEDDING" ELSE "SEARCH_STORAGE"

\* variant: the failure of the context building leaves the function
build_chat_messages_with_rag_uncaught(docs, chunk_rows, last_user_query, attached_cards, use_rag, today, retrieval_fault) ==
  IF use_rag /\ last_user_query # <<>>
  THEN IF retrieval_fault # "none"
       THEN { [rag_context |-> <<>>, retrieval_error |-> RetrievalError(retrieval_fault),
               error |-> RetrievalError(retrieval_fault)] }
       ELSE { [rag_context |-> c, retrieval_error |-> None, error |-> None] :
              c \in build_context_for_chat(docs, chunk_rows, last_user_query,
                                           attached_cards, 3, today) }
  ELSE { [rag_context |-> <<>>, retrieval_error |-> None, error |-> None] }

\* build_chat_messages_with_rag: rag_context is built inside try / except
\* Exception, which logs a warning and leaves rag_context = ""
build_chat_messages_with_rag(docs, chunk_rows, last_user_query, attached_cards, use_rag, today, retrieval_fault) ==
  IF use_rag /\ last_user_query # <<>>
  THEN IF retrieval_fault # "none"
       THEN { [rag_context |-> <<>>, retrieval_error |-> RetrievalError(retrieval_fault),
               error |-> None] }
       ELSE { [rag_context |-> c, retrieval_error |-> None, error |-> None] :
              c \in build_context_for_chat(docs, chunk_rows, last_user_query,
                                           attached_cards, 3, today) }
  ELSE { [rag_context |-> <<>>, retrieval_error |-> None, error |-> None] }

\* generate_chat_response: the messages, then one llm.invoke
generate_chat_response(docs, chunk_rows, last_user_query, attached_cards, use_rag, today, retrieval_fault, llm_ok, reply) ==
  { [context |-> m.rag_context,
     retrieval_error |-> m.retrieval_error,
     llm_calls |-> IF m.error = None THEN 1 ELSE 0,
     error |-> IF m.error # None THEN m.error ELSE IF llm_ok THEN None ELSE "LLM",
     answer |-> IF m.error = None /\ llm_ok THEN Strip(reply) ELSE <<>>] :
    m \in build_chat_messages_with_rag(docs, chunk_rows, last_user_query,
                                       attached_cards, use_rag, today,
                                       retrieval_fault) }

\* daily_reports_context of generate_custom_report_md: one part per report
ReportContext(daily_reports) ==
  [i \in 1..Len(daily_reports) |->
     [title |-> daily_reports[i].title, report_date |-> daily_reports[i].report_date,
      content |-> Preview(daily_reports[i].content, 600)]]

\* generate_custom_report_md: the search runs inside try / except Exception,
\* which logs a warning and leaves daily_reports_context = None; then one
\* llm.invoke
generate_custom_report_md(docs, chunk_rows, user_request, use_rag, today, retrieval_fault, llm_ok, reply) ==
  LET found ==
        IF use_rag /\ user_request # <<>>
        THEN IF retrieval_fault # "none"
             THEN { [context |-> <<>>,
                     retrieval_error |-> RetrievalError(retrieval_fault)] }
             ELSE { [context |-> ReportContext(daily_reports), retrieval_error |-> None] :
                    daily_reports \in search_recent_daily_reports(docs, chunk_rows,
                                        user_request, 14, 3, today) }
        ELSE { [context |-> <<>>, retrieval_error |-> None] }
  IN { [context |-> f.context, retrieval_error |-> f.retrieval_error, llm_calls |-> 1,
        error |-> IF llm_ok THEN None ELSE "LLM",
        body_md |-> IF llm_ok THEN Strip(reply) ELSE <<>>] : f \in found }

\* "".join of a sequence of one-character strings
RECURSIVE Text(_)
Text(s) == IF s = <<>> THEN "" ELSE Head(s) \o Text(Tail(s))

\* the text of s from position i up to the end of its line
RECURSIVE RestOfLine(_, _)
RestOfLine(s, i) ==
  IF i > Len(s) \/ s[i] = NL THEN <<>> ELSE <<s[i]>> \o RestOfLine(s, i + 1)

\* position i of md holds the "#" of a heading: only white space lies between
\* the start of a line and i, white space follows, and then a title
IsHeadingAt(md, i) ==
  /\ md[i] = "#"
  /\ \E s \in 1..i :
       /\ s = 1 \/ md[s - 1] = NL
       /\ \A j \in s..(i - 1) : IsSpace(md[j])
  /\ \E t \in (i + 2)..Len(md) :
       /\ \A j \in (i + 1)..(t - 1) : IsSpace(md[j])
       /\ ~IsSpace(md[t])

\* infer_title_from_md: re.search(r"^\s*#\s+(.+)\s*$", md, re.MULTILINE), the
\* group stripped and cut to 120 characters
infer_title_from_md(md, fallback) ==
  LET heads == {i \in 1..Len(md) : IsHeadingAt(md, i)} IN
  IF heads = {} THEN fallback
  ELSE LET i == CHOOSE h \in heads : \A g \in heads : h <= g
           t == CHOOSE u \in (i + 2)..Len(md) :
                  /\ ~IsSpace(md[u])
                  /\ \A j \in (i + 1)..(u - 1) : IsSpace(md[j])
       IN Text(PyPrefix(Strip(RestOfLine(md, t)), 120))

\* VectorStore.new_report_id: prefix, "_", and a fresh uuid4; n numbers the
\* uuids drawn
new_report_id(prefix, n) == prefix \o "_" \o ToString(n)

\* ReportService.generate_custom_report with use_rag = True: the rule document
\* is read, the report is generated, then upsert_document and ingest_document
\* store it under a fresh id.  An outcome holds the tables after the call and
\* the rows left uncommitted on the connection.
generate_custom_report(docs, chunk_rows, user_request, today, now, n, fault, retrieval_fault, reply, k) ==
  LET Failed(md, e) ==
        [docs |-> docs, chunk_rows |-> chunk_rows, uncommitted |-> <<>>,
         context |-> md.context, retrieval_error |-> md.retrieval_error,
         llm_calls |-> md.llm_calls, error |-> e, report_id |-> None,
         body_md |-> <<>>, title |-> None]
      Stored(md) ==
        LET report_id == new_report_id("report_custom", n)
            title == infer_title_from_md(md.body_md, "Custom Report")
            out == ingest_document(chunk_rows, report_id, md.body_md, ChunkMaxChars,
                                   ChunkOverlap, fault, k)
        IN [docs |-> upsert_document(docs, report_id, DOC_TYPE_CUSTOM, title,
                                     md.body_md, today, now),
            chunk_rows |-> out.chunk_rows, uncommitted |-> out.uncommitted,
            context |-> md.context, retrieval_error |-> md.retrieval_error,
            llm_calls |-> md.llm_calls, error |-> out.error,
            report_id |-> IF out.error = None THEN report_id ELSE None,
            body_md |-> IF out.error = None THEN md.body_md ELSE <<>>,
            title |-> IF out.error = None THEN title ELSE None]
  IN
  IF fault = "rule"
  THEN { Failed([context |-> <<>>, retrieval_error |-> None, llm_calls |-> 0],
                "STORAGE") }
  ELSE { IF md.error # None THEN Failed(md, md.error)
         ELSE IF fault = "upsert" THEN Failed(md, "STORAGE")
         ELSE Stored(md) :
         md \in generate_custom_report_md(docs, chunk_rows, user_request, TRUE, today,
                                          retrieval_fault, fault # "llm", reply) }


(***************************************************************************)
(* State.                                                                  *)
(***************************************************************************)
VARIABLES
  rag_docs,        \* committed rows of table rag_docs
  rag_doc_chunks,  \* committed rows of table rag_doc_chunks
  clock,           \* SYSTIMESTAMP / CURRENT_TIMESTAMP of the database
  runs,            \* number of run_daily_report invocations started
  pc,              \* position of each run_daily_report invocation
  report_day,      \* argument report_day of each invocation
  save,            \* argument save of each invocation
  final_md,        \* text returned by llm_write_final_report
  chunks,          \* local variable chunks of ingest_doc_to_rag
  tx,              \* rows inserted on the invocation's connection, not committed
  exc,             \* exception in flight in the invocation (None: none)
  result,          \* record returned by run_daily_report, once pc is "done"
  raised,          \* an exception left run_daily_report
  trail,           \* history of the invocation: what it has done so far
  latest_body,     \* history: <<body>> of the most recent upsert for each report day
  ops,             \* number of store and service operations carried out
  op,              \* the last store operation: its arguments and its outcome
  upserted,        \* history: <<arguments>> of the most recent upsert for each doc_id
  call             \* the last retrieval, chat or custom report call and its outcome

vars == <<rag_docs, rag_doc_chunks, clock, runs, pc, report_day, save, final_md,
          chunks, tx, exc, result, raised, trail, latest_body, ops, op, upserted,
          call>>

\* state of the run_daily_report invocations
daily_vars == <<runs, pc, report_day, save, final_md, chunks, tx, exc, result,
                raised, trail, latest_body>>

\* state of the operations of VectorStore, RAGService and the services
service_vars == <<ops, op, upserted, call>>

\* the concurrent run_daily_report invocations
Procs == {1, 2}

\* texts the language model may return (already stripped)
Bodies == { <<>>,
            <<"a", "b">>,
            <<"a", "b", NL, NL, "c", "d">>,
            <<"a", "b", "c", "d", "e", "f">> }

RULE_DOC_ID == "RULE_DOC_GLOBAL_V1"

RuleRow(doc_id, body, now) == DocRow(doc_id, DOC_TYPE_RULE, "RULE", body, NoDate, now)

\* the rule documents the store may hold when the service starts
RuleSetups ==
  { <<>>,
    << RuleRow(RULE_DOC_ID, <<SP>>, 0) >>,
    << RuleRow(RULE_DOC_ID, <<"r">>, 0) >>,
    << RuleRow("RULE_DOC_OLD", <<"r">>, 0), RuleRow(RULE_DOC_ID, <<>>, 1) >> }

NoResult ==
  [ok |-> FALSE, error |-> None, doc_id |-> None, chunk_count |-> Absent,
   one_line_insight |-> None, final_md |-> <<>>]

NoTrail ==
  [built |-> FALSE, llm_called |-> FALSE, wrote |-> FALSE, deleted |-> FALSE,
   had_chunks |-> FALSE, partial |-> 0, disturbed |-> FALSE]

\* doc ids of the store operations: a daily report and a custom report
StoreDocIds == {doc_id_for_daily(Day(2026, 1, 12)), "report_custom_1"}

\* arguments of the upserts of the model: two bodies for the daily report, and
\* a custom report that a second upsert changes in every field
UpsertInputs ==
  { [doc_id |-> doc_id_for_daily(Day(2026, 1, 12)), doc_type_id |-> DOC_TYPE_DAILY,
     title |-> DailyTitle(Day(2026, 1, 12)), body_md |-> <<"a", "b">>,
     report_date |-> Day(2026, 1, 12)],
    [doc_id |-> doc_id_for_daily(Day(2026, 1, 12)), doc_type_id |-> DOC_TYPE_DAILY,
     title |-> DailyTitle(Day(2026, 1, 12)), body_md |-> <<"a", "b", NL, NL, "c", "d">>,
     report_date |-> Day(2026, 1, 12)],
    [doc_id |-> "report_custom_1", doc_type_id |-> DOC_TYPE_CUSTOM,
     title |-> "Custom Report", body_md |-> <<"a", "b", "c", "d", "e", "f">>,
     report_date |-> Day(2026, 11, 2)],
    [doc_id |-> "report_custom_1", doc_type_id |-> DOC_TYPE_DAILY,
     title |-> "Retitled", body_md |-> <<>>, report_date |-> NoDate] }

NoOp ==
  [name |-> "none", doc_id |-> None, doc_type_id |-> Absent, title |-> None,
   body_md |-> <<>>, report_date |-> NoDate, error |-> None, chunk_count |-> Absent,
   replaced |-> 0]

NoCall ==
  [name |-> "none", query |-> <<>>, top_k |-> 0, doc_types |-> <<>>,
   doc_type_ids |-> <<>>, date_from |-> NoDate, date_to |-> NoDate,
   today |-> NoDate, attached_cards |-> <<>>, fault |-> "none",
   retrieval_fault |-> "none", reply |-> <<>>, results |-> <<>>, context |-> <<>>,
   retrieval_error |-> None, llm_calls |-> 0, error |-> None, answer |-> <<>>,
   report_id |-> None, text |-> <<>>]

Init ==
  /\ rag_docs \in RuleSetups
  /\ rag_doc_chunks = <<>>
  /\ clock = 2
  /\ runs = 0
  /\ pc = [p \in Procs |-> "idle"]
  /\ report_day = [p \in Procs |-> NoDate]
  /\ save = [p \in Procs |-> FALSE]
  /\ final_md = [p \in Procs |-> <<>>]
  /\ chunks = [p \in Procs |-> <<>>]
  /\ tx = [p \in Procs |-> <<>>]
  /\ exc = [p \in Procs |-> None]
  /\ result = [p \in Procs |-> NoResult]
  /\ raised = [p \in Procs |-> FALSE]
  /\ trail = [p \in Procs |-> NoTrail]
  /\ latest_body = [d \in ReportDays |-> <<>>]
  /\ ops = 0
  /\ op = NoOp
  /\ upserted = [id \in StoreDocIds |-> <<>>]
  /\ call = NoCall


(***************************************************************************)
(* run_daily_report: exception handling.                                   *)
(***************************************************************************)
\* "except Exception" of run_daily_report: every error of the pipeline is an
\* Exception (RuntimeError, oracledb and OpenAI errors)
Catches(e) == TRUE

FailResult(e) ==
  [ok |-> FALSE, error |-> e, doc_id |-> None, chunk_count |-> Absent,
   one_line_insight |-> None, final_md |-> <<>>]

\* an exception e reaches the try/except of run_daily_report
Handle(p, e) ==
  /\ pc' = [pc EXCEPT ![p] = "done"]
  /\ exc' = [exc EXCEPT ![p] = None]
  /\ IF Catches(e)
     THEN /\ result' = [result EXCEPT ![p] = FailResult(e)]
          /\ UNCHANGED raised
     ELSE /\ raised' = [raised EXCEPT ![p] = TRUE]
          /\ UNCHANGED result

\* the invocation changed a committed table in this step
Wrote(p) ==
  trail[p].wrote \/ rag_docs' # rag_docs \/ rag_doc_chunks' # rag_doc_chunks

(***************************************************************************)
(* load_rule_doc: Q_RULE_DOC_LATEST, then the two checks.                  *)
(***************************************************************************)
RuleRows(docs) == LET P(r) == r.doc_type_id = DOC_TYPE_RULE IN SelectSeq(docs, P)

\* ORDER BY created_at DESC FETCH FIRST 1 ROWS ONLY (created_at values of rule
\* documents are distinct)
Q_RULE_DOC_LATEST(docs) ==
  LET rows == RuleRows(docs) IN
  IF rows = <<>> THEN <<>>
  ELSE << CHOOSE r \in {rows[i] : i \in 1..Len(rows)} :
            \A i \in 1..Len(rows) : rows[i].created_at <= r.created_at >>

\* variant: the body of the rule document is not checked
load_rule_doc_unchecked(docs) ==
  IF Q_RULE_DOC_LATEST(docs) = <<>> THEN "RULE_DOC_NOT_FOUND" ELSE None

\* the error load_rule_doc raises, None when it returns the rule document
load_rule_doc(docs) ==
  LET row == Q_RULE_DOC_LATEST(docs) IN
  IF row = <<>> THEN "RULE_DOC_NOT_FOUND"
  ELSE IF Strip(row[1].body_md) = <<>> THEN "RULE_DOC_EMPTY"
  ELSE None

(***************************************************************************)
(* run_daily_report, step by step.  A step ends at each commit and at each *)
(* call of an external collaborator.                                       *)
(***************************************************************************)
Start(p) ==
  /\ pc[p] \in {"idle", "done"}
  /\ UNCHANGED service_vars
  /\ runs < MaxRuns
  /\ \E d \in ReportDays, s \in BOOLEAN :
       /\ report_day' = [report_day EXCEPT ![p] = d]
       /\ save' = [save EXCEPT ![p] = s]
  /\ runs' = runs + 1
  /\ pc' = [pc EXCEPT ![p] = "load_rule"]
  /\ final_md' = [final_md EXCEPT ![p] = <<>>]
  /\ chunks' = [chunks EXCEPT ![p] = <<>>]
  /\ result' = [result EXCEPT ![p] = NoResult]
  /\ raised' = [raised EXCEPT ![p] = FALSE]
  /\ trail' = [trail EXCEPT ![p] = NoTrail]
  /\ UNCHANGED <<rag_docs, rag_doc_chunks, clock, tx, exc, latest_body>>

\* rule = load_rule_doc()
LoadRule(p) ==
  /\ pc[p] = "load_rule"
  /\ UNCHANGED service_vars
  /\ \E storage_ok \in BOOLEAN :
       LET e == IF storage_ok THEN load_rule_doc(rag_docs) ELSE "STORAGE" IN
       IF e # None
       THEN Handle(p, e)
       ELSE /\ pc' = [pc EXCEPT ![p] = "build"]
            /\ UNCHANGED <<exc, result, raised>>
  /\ UNCHANGED <<rag_docs, rag_doc_chunks, clock, runs, report_day, save,
                 final_md, chunks, tx, trail, latest_body>>

\* build_category_sections ... choose_one_line_insight: reads of the snapshot
\* tables and pure rendering
BuildFacts(p) ==
  /\ pc[p] = "build"
  /\ UNCHANGED service_vars
  /\ \E storage_ok \in BOOLEAN :
       IF storage_ok
       THEN /\ pc' = [pc EXCEPT ![p] = "llm"]
            /\ trail' = [trail EXCEPT ![p].built = TRUE]
            /\ UNCHANGED <<exc, result, raised>>
       ELSE /\ Handle(p, "STORAGE")
            /\ UNCHANGED trail
  /\ UNCHANGED <<rag_docs, rag_doc_chunks, clock, runs, report_day, save,
                 final_md, chunks, tx, latest_body>>

\* the result dict of a run that reached its return: "one_line_insight" holds
\* the sentence chosen by choose_one_line_insight, "final_md" the LLM's text
OkResult(body, doc_id, n) ==
  [ok |-> TRUE, error |-> None, doc_id |-> doc_id, chunk_count |-> n,
   one_line_insight |-> "one_line", final_md |-> body]

\* variant: the report is saved whatever the save argument says
LlmWrite_always_saves(p) ==
  /\ pc[p] = "llm"
  /\ UNCHANGED service_vars
  /\ trail' = [trail EXCEPT ![p].llm_called = TRUE]
  /\ \/ /\ Handle(p, "LLM")
        /\ UNCHANGED final_md
     \/ \E body \in Bodies :
          /\ final_md' = [final_md EXCEPT ![p] = body]
          /\ pc' = [pc EXCEPT ![p] = "upsert"]
          /\ UNCHANGED <<result, exc, raised>>
  /\ UNCHANGED <<rag_docs, rag_doc_chunks, clock, runs, report_day, save,
                 chunks, tx, latest_body>>

\* final_md = llm_write_final_report(...); without save the result is returned
LlmWrite(p) ==
  /\ pc[p] = "llm"
  /\ UNCHANGED service_vars
  /\ trail' = [trail EXCEPT ![p].llm_called = TRUE]
  /\ \/ /\ Handle(p, "LLM")
        /\ UNCHANGED final_md
     \/ \E body \in Bodies :
          /\ final_md' = [final_md EXCEPT ![p] = body]
          /\ IF save[p]
             THEN /\ pc' = [pc EXCEPT ![p] = "upsert"]
                  /\ UNCHANGED result
             ELSE /\ pc' = [pc EXCEPT ![p] = "done"]
                  /\ result' = [result EXCEPT ![p] = OkResult(body, None, 0)]
          /\ UNCHANGED <<exc, raised>>
  /\ UNCHANGED <<rag_docs, rag_doc_chunks, clock, runs, report_day, save,
                 chunks, tx, latest_body>>


(***************************************************************************)
(* save_daily_report: upsert_report_doc, then ingest_doc_to_rag, on one    *)
(* connection that is closed in the finally clause.                        *)
(***************************************************************************)
\* positions between the upsert of an invocation and the return of
\* save_daily_report
MidSave == {"delete", "embed", "insert", "finally"}

\* invocations for the same report day that are inside save_daily_report,
\* past their upsert
Overlapping(p) ==
  {q \in Procs \ {p} : report_day[q] = report_day[p] /\ pc[q] \in MidSave}

\* conn = get_oracle_conn(); upsert_report_doc(...)
SaveUpsert(p) ==
  /\ pc[p] = "upsert"
  /\ UNCHANGED service_vars
  /\ \E storage_ok \in BOOLEAN :
       IF storage_ok
       THEN /\ rag_docs' = upsert_report_doc(rag_docs, doc_id_for_daily(report_day[p]),
                                              DOC_TYPE_DAILY, DailyTitle(report_day[p]),
                                              final_md[p], report_day[p], clock)
            /\ clock' = clock + 1
            /\ latest_body' = [latest_body EXCEPT ![report_day[p]] = <<final_md[p]>>]
            /\ pc' = [pc EXCEPT ![p] = "delete"]
            /\ UNCHANGED rag_doc_chunks
            /\ trail' = [q \in Procs |->
                 IF q = p
                 THEN [trail[p] EXCEPT !.wrote = Wrote(p),
                                       !.disturbed = Overlapping(p) # {}]
                 ELSE IF q \in Overlapping(p)
                      THEN [trail[q] EXCEPT !.disturbed = TRUE]
                      ELSE trail[q]]
            /\ UNCHANGED exc
       ELSE /\ exc' = [exc EXCEPT ![p] = "STORAGE"]
            /\ pc' = [pc EXCEPT ![p] = "finally"]
            /\ UNCHANGED <<rag_docs, rag_doc_chunks, clock, latest_body, trail>>
  /\ UNCHANGED <<runs, report_day, save, final_md, chunks, tx, result, raised>>

\* ingest_doc_to_rag: chunks = _simple_md_chunk(...); delete_chunks_for_doc(...);
\* insert_chunks_with_embeddings returns 0 at once when there is no chunk
IngestDelete(p) ==
  /\ pc[p] = "delete"
  /\ UNCHANGED service_vars
  /\ UNCHANGED <<rag_docs, clock, runs, report_day, save, final_md, tx, result,
                 raised, latest_body>>
  /\ LET doc_id == doc_id_for_daily(report_day[p])
         new_chunks == _simple_md_chunk(final_md[p], ChunkMaxChars, ChunkOverlap)
     IN
     /\ chunks' = [chunks EXCEPT ![p] = new_chunks]
     /\ \E storage_ok \in BOOLEAN :
          IF storage_ok
          THEN /\ rag_doc_chunks' = delete_chunks_for_doc(rag_doc_chunks, doc_id)
               /\ trail' = [trail EXCEPT
                    ![p].deleted = TRUE,
                    ![p].had_chunks = ChunksOfDoc(rag_doc_chunks, doc_id) # <<>>,
                    ![p].wrote = Wrote(p)]
               /\ pc' = [pc EXCEPT ![p] = IF new_chunks = <<>> THEN "finally"
                                           ELSE "embed"]
               /\ UNCHANGED exc
          ELSE /\ exc' = [exc EXCEPT ![p] = "STORAGE"]
               /\ pc' = [pc EXCEPT ![p] = "finally"]
               /\ UNCHANGED <<rag_doc_chunks, trail>>

\* vectors = emb.embed_documents(chunks): one round trip, fails as a whole
IngestEmbed(p) ==
  /\ pc[p] = "embed"
  /\ UNCHANGED service_vars
  /\ \E embed_ok \in BOOLEAN :
       IF embed_ok
       THEN /\ pc' = [pc EXCEPT ![p] = "insert"]
            /\ UNCHANGED exc
       ELSE /\ exc' = [exc EXCEPT ![p] = "EMBEDDING"]
            /\ pc' = [pc EXCEPT ![p] = "finally"]
  /\ UNCHANGED <<rag_docs, rag_doc_chunks, clock, runs, report_day, save,
                 final_md, chunks, tx, result, raised, trail, latest_body>>

\* cur.executemany(INSERT ..., rows); conn.commit().  The statement may fail
\* after k rows (k = all rows: the commit fails); the rows inserted so far
\* then stay uncommitted on the connection.
IngestInsert(p) ==
  /\ pc[p] = "insert"
  /\ UNCHANGED service_vars
  /\ UNCHANGED <<rag_docs, clock, runs, report_day, save, final_md, chunks,
                 result, raised, latest_body>>
  /\ LET rows == ChunkRows(doc_id_for_daily(report_day[p]), chunks[p],
                           embed_documents(chunks[p]))
     IN
     \/ /\ rag_doc_chunks' = rag_doc_chunks \o rows
        /\ trail' = [trail EXCEPT ![p].wrote = Wrote(p)]
        /\ UNCHANGED <<tx, exc>>
     \/ \E k \in 0..Len(rows) :
          /\ tx' = [tx EXCEPT ![p] = SubSeq(rows, 1, k)]
          /\ exc' = [exc EXCEPT ![p] = "STORAGE"]
          /\ trail' = [trail EXCEPT ![p].partial = k]
          /\ UNCHANGED rag_doc_chunks
  /\ pc' = [pc EXCEPT ![p] = "finally"]

\* finally: conn.close(); then the return of save_daily_report and of
\* run_daily_report, or the exception reaches the except clause
SaveFinally(p) ==
  /\ pc[p] = "finally"
  /\ UNCHANGED service_vars
  /\ UNCHANGED <<rag_docs, clock, runs, report_day, save, final_md, chunks,
                 latest_body>>
  /\ rag_doc_chunks' = rag_doc_chunks \o conn_close(tx[p])
  /\ tx' = [tx EXCEPT ![p] = <<>>]
  /\ trail' = [trail EXCEPT ![p].wrote = Wrote(p)]
  /\ IF exc[p] # None
     THEN Handle(p, exc[p])
     ELSE /\ pc' = [pc EXCEPT ![p] = "done"]
          /\ result' = [result EXCEPT ![p] =
               OkResult(final_md[p], doc_id_for_daily(report_day[p]), Len(chunks[p]))]
          /\ UNCHANGED <<exc, raised>>

Next ==
  \E p \in Procs :
    \/ Start(p)
    \/ LoadRule(p)
    \/ BuildFacts(p)
    \/ LlmWrite(p)
    \/ SaveUpsert(p)
    \/ IngestDelete(p)
    \/ IngestEmbed(p)
    \/ IngestInsert(p)
    \/ SaveFinally(p)

Spec == Init /\ [][Next]_vars


(***************************************************************************)
(* Properties of the daily report pipeline (specification Spec).           *)
(***************************************************************************)
DailyId(p) == doc_id_for_daily(report_day[p])

\* the step in which save_daily_report of invocation p ends
SaveEnds(p) == pc[p] = "finally" /\ pc'[p] = "done"

\* contents of a sequence of chunk rows, in order
Contents(rows) == [i \in 1..Len(rows) |-> rows[i].content]

\* C1: an ingest that fails after its delete step, for a document that had
\* committed chunks, does not leave the document with zero chunks.
C1_FailedIngestKeepsChunks ==
  [][\A p \in Procs :
       (/\ SaveEnds(p)
        /\ ~result'[p].ok
        /\ trail[p].deleted
        /\ trail[p].had_chunks
        /\ ~trail[p].disturbed)
       => ChunksOfDoc(rag_doc_chunks', DailyId(p)) # <<>>]_vars

\* C2: when the embedding call or a chunk insertion fails, the error reaches
\* the caller, and the committed chunks of the document are all rows of the new
\* body or none of them.
C2_NoPartialChunkSet ==
  [][\A p \in Procs :
       (SaveEnds(p) /\ trail[p].deleted /\ ~trail[p].disturbed)
       => /\ LET rows == ChunksOfDoc(rag_doc_chunks', DailyId(p))
                 full == ChunkRows(DailyId(p), chunks[p], embed_documents(chunks[p]))
             IN rows = <<>> \/ rows = full
          /\ exc[p] # None
               => /\ ~result'[p].ok
                  /\ result'[p].error = exc[p]
                  /\ ChunksOfDoc(rag_doc_chunks', DailyId(p)) = <<>>]_vars

\* C2 witness: an insertion failed after some but not all rows, and the
\* invocation has returned
C2_Witness ==
  \E p \in Procs :
    /\ pc[p] = "done"
    /\ result[p].error = "STORAGE"
    /\ trail[p].deleted
    /\ ~trail[p].disturbed
    /\ trail[p].partial > 0
    /\ trail[p].partial < Len(chunks[p])

\* DAILY rows of rag_docs for a report day
DailyRowsFor(d) ==
  LET P(r) == r.doc_type_id = DOC_TYPE_DAILY /\ r.report_date = d
  IN SelectSeq(rag_docs, P)

\* C5: the store holds exactly one DAILY document for every report day that
\* has been saved, with the body of the latest save for that day, and none for
\* the other days.
C5_OneDailyDocPerDate ==
  \A d \in ReportDays :
    IF latest_body[d] = <<>>
    THEN DailyRowsFor(d) = <<>>
    ELSE /\ Len(DailyRowsFor(d)) = 1
         /\ DailyRowsFor(d)[1].body_md = latest_body[d][1]

\* C5 witness: two successful saving runs for the same day with different texts
C5_Witness ==
  \E p, q \in Procs :
    /\ p # q
    /\ pc[p] = "done" /\ pc[q] = "done"
    /\ result[p].ok /\ result[q].ok
    /\ save[p] /\ save[q]
    /\ report_day[p] = report_day[q]
    /\ final_md[p] # final_md[q]
    /\ \E d \in ReportDays : d # report_day[p] /\ latest_body[d] = <<>>

\* C6: an invocation that returns ok = false has not changed the stored
\* document or its chunks, and its result carries an error and no doc_id.
C6_FailureLeavesNoDocument ==
  \A p \in Procs :
    (pc[p] = "done" /\ ~raised[p] /\ ~result[p].ok)
    => /\ ~trail[p].wrote
       /\ result[p].error # None
       /\ result[p].doc_id = None

\* the latest rule document is absent, or its body is empty after stripping
RuleDocAbsent == Q_RULE_DOC_LATEST(rag_docs) = <<>>
RuleDocEmpty ==
  /\ ~RuleDocAbsent
  /\ \A i \in 1..Len(Q_RULE_DOC_LATEST(rag_docs)[1].body_md) :
       IsSpace(Q_RULE_DOC_LATEST(rag_docs)[1].body_md[i])

\* C7: with the rule document absent or empty the invocation builds no section,
\* calls no language model and persists nothing, and returns ok = false with an
\* error; no failure of the pipeline leaves run_daily_report as an exception.
C7_RuleDocGate ==
  \A p \in Procs :
    /\ ~raised[p]
    /\ pc[p] = "done" => (result[p].ok \/ result[p].error # None)
    /\ (RuleDocAbsent \/ RuleDocEmpty)
         => /\ pc[p] \in {"idle", "load_rule", "done"}
            /\ ~trail[p].built /\ ~trail[p].llm_called /\ ~trail[p].wrote
            /\ pc[p] = "done" => ~result[p].ok /\ result[p].error # None
    /\ (pc[p] = "done" /\ result[p].error = "RULE_DOC_NOT_FOUND") => RuleDocAbsent
    /\ (pc[p] = "done" /\ result[p].error = "RULE_DOC_EMPTY") => RuleDocEmpty

\* C7 witness: an invocation has returned the failure for an empty rule document
C7_Witness ==
  \E p \in Procs :
    /\ pc[p] = "done"
    /\ ~result[p].ok
    /\ result[p].error = "RULE_DOC_EMPTY"
    /\ RuleDocEmpty

\* the chunk rows of the daily document of p correspond to its stored body
ConsistentDoc(docs, chunk_rows, doc_id) ==
  /\ Len(DocsWithId(docs, doc_id)) = 1
  /\ Contents(ChunksOfDoc(chunk_rows, doc_id))
       = _simple_md_chunk(DocsWithId(docs, doc_id)[1].body_md,
                          ChunkMaxChars, ChunkOverlap)

\* C9: a save that no other save for the same day overlaps is last-write-wins:
\* when it returns, the stored body is its text and the chunks are those of
\* that body.
C9_SerialSaveWins ==
  [][\A p \in Procs :
       (SaveEnds(p) /\ result'[p].ok /\ ~trail[p].disturbed)
       => /\ ConsistentDoc(rag_docs', rag_doc_chunks', DailyId(p))
          /\ DocsWithId(rag_docs', DailyId(p))[1].body_md = final_md[p]]_vars

\* C9 witness: two overlapping saves for one day have both returned ok, and the
\* chunks of the document are not those of its stored body
C9_Witness ==
  \E p, q \in Procs :
    /\ p # q
    /\ pc[p] = "done" /\ pc[q] = "done"
    /\ result[p].ok /\ result[q].ok
    /\ save[p] /\ save[q]
    /\ report_day[p] = report_day[q]
    /\ trail[p].disturbed /\ trail[q].disturbed
    /\ ~ConsistentDoc(rag_docs, rag_doc_chunks, DailyId(p))
    /\ \E i, j \in 1..Len(ChunksOfDoc(rag_doc_chunks, DailyId(p))) :
         /\ i # j
         /\ ChunksOfDoc(rag_doc_chunks, DailyId(p))[i].chunk_index
              = ChunksOfDoc(rag_doc_chunks, DailyId(p))[j].chunk_index

(***************************************************************************)
(* The store operations, one caller at a time (specification SpecStore).   *)
(* Each operation runs on a connection of its own that the caller closes   *)
(* when the operation has returned or raised (app.py, save_daily_report).  *)
(***************************************************************************)
InitStore ==
  /\ rag_docs \in { <<>>, << RuleRow(RULE_DOC_ID, <<"r">>, 0) >> }
  /\ rag_doc_chunks = <<>>
  /\ clock = 2
  /\ runs = 0
  /\ pc = [p \in Procs |-> "idle"]
  /\ report_day = [p \in Procs |-> NoDate]
  /\ save = [p \in Procs |-> FALSE]
  /\ final_md = [p \in Procs |-> <<>>]
  /\ chunks = [p \in Procs |-> <<>>]
  /\ tx = [p \in Procs |-> <<>>]
  /\ exc = [p \in Procs |-> None]
  /\ result = [p \in Procs |-> NoResult]
  /\ raised = [p \in Procs |-> FALSE]
  /\ trail = [p \in Procs |-> NoTrail]
  /\ latest_body = [d \in ReportDays |-> <<>>]
  /\ ops = 0
  /\ op = NoOp
  /\ upserted = [id \in StoreDocIds |-> <<>>]
  /\ call = NoCall

\* the record of an upsert with arguments x
UpsertOp(name, x, e, docs) ==
  [name |-> name, doc_id |-> x.doc_id, doc_type_id |-> x.doc_type_id,
   title |-> x.title, body_md |-> x.body_md, report_date |-> x.report_date,
   error |-> e, chunk_count |-> Absent, replaced |-> Len(DocsWithId(docs, x.doc_id))]

\* VectorStore.upsert_document(...) on a connection that is closed afterwards
UpsertDocument ==
  /\ ops < MaxOps
  /\ ops' = ops + 1
  /\ \E x \in UpsertInputs, storage_ok \in BOOLEAN :
       IF storage_ok
       THEN /\ rag_docs' = upsert_document(rag_docs, x.doc_id, x.doc_type_id, x.title,
                                            x.body_md, x.report_date, clock)
            /\ clock' = clock + 1
            /\ op' = UpsertOp("upsert_document", x, None, rag_docs)
            /\ upserted' = [upserted EXCEPT ![x.doc_id] = <<x>>]
       ELSE /\ op' = UpsertOp("upsert_document", x, "STORAGE", rag_docs)
            /\ UNCHANGED <<rag_docs, clock, upserted>>
  /\ UNCHANGED <<rag_doc_chunks, call, daily_vars>>

\* rag_store.upsert_report_doc(...) on a connection that is closed afterwards
UpsertReportDoc ==
  /\ ops < MaxOps
  /\ ops' = ops + 1
  /\ \E x \in UpsertInputs, storage_ok \in BOOLEAN :
       IF storage_ok
       THEN /\ rag_docs' = upsert_report_doc(rag_docs, x.doc_id, x.doc_type_id, x.title,
                                              x.body_md, x.report_date, clock)
            /\ clock' = clock + 1
            /\ op' = UpsertOp("upsert_report_doc", x, None, rag_docs)
            /\ upserted' = [upserted EXCEPT ![x.doc_id] = <<x>>]
       ELSE /\ op' = UpsertOp("upsert_report_doc", x, "STORAGE", rag_docs)
            /\ UNCHANGED <<rag_docs, clock, upserted>>
  /\ UNCHANGED <<rag_doc_chunks, call, daily_vars>>

\* VectorStore.ingest_document(doc_id, body_md) with the chunk sizes of the
\* model, then the close of the connection
IngestDocument ==
  /\ ops < MaxOps
  /\ ops' = ops + 1
  /\ \E doc_id \in StoreDocIds, body_md \in Bodies, fault \in IngestFaults :
     \E k \in InsertedBeforeFault(body_md, fault) :
       LET out == ingest_document(rag_doc_chunks, doc_id, body_md, ChunkMaxChars,
                                  ChunkOverlap, fault, k)
       IN
       /\ rag_doc_chunks' = out.chunk_rows \o conn_close(out.uncommitted)
       /\ op' = [name |-> "ingest_document", doc_id |-> doc_id, doc_type_id |-> Absent,
                 title |-> None, body_md |-> body_md, report_date |-> NoDate,
                 error |-> out.error, chunk_count |-> out.chunk_count,
                 replaced |-> Len(ChunksOfDoc(rag_doc_chunks, doc_id))]
  /\ UNCHANGED <<rag_docs, clock, upserted, call, daily_vars>>

NextStore ==
  \/ UpsertDocument
  \/ UpsertReportDoc
  \/ IngestDocument

SpecStore == InitStore /\ [][NextStore]_vars

(***************************************************************************)
(* Properties of the store operations (specification SpecStore).           *)
(***************************************************************************)
\* the step is an operation called name that returns without an error
Completes(name) == ops' = ops + 1 /\ op'.name = name /\ op'.error = None

\* the stored fields of a document row other than created_at
StoredFields(r) ==
  [doc_id |-> r.doc_id, doc_type_id |-> r.doc_type_id, title |-> r.title,
   body_md |-> r.body_md, report_date |-> r.report_date]

\* C3: when an ingest(doc_id, body) completes, the committed chunk rows of
\* doc_id are the chunker's output for body, in chunk order, with the index
\* values 0..n-1; no chunk of an earlier body remains, the chunks of the other
\* documents are untouched, and an ingest that repeats the preceding one leaves
\* the same contents and count.
C3_IngestRegeneratesChunks ==
  [][Completes("ingest_document") =>
       LET rows == ChunksOfDoc(rag_doc_chunks', op'.doc_id)
           expected == _chunk_markdown(op'.body_md, ChunkMaxChars, ChunkOverlap)
       IN
       /\ Contents(rows) = expected
       /\ \A i \in 1..Len(rows) : rows[i].chunk_index = i - 1
       /\ op'.chunk_count = Len(rows)
       /\ \A id \in StoreDocIds \ {op'.doc_id} :
            ChunksOfDoc(rag_doc_chunks', id) = ChunksOfDoc(rag_doc_chunks, id)
       /\ (/\ op.name = "ingest_document" /\ op.error = None
           /\ op.doc_id = op'.doc_id /\ op.body_md = op'.body_md)
            => /\ Contents(rows) = Contents(ChunksOfDoc(rag_doc_chunks, op.doc_id))
               /\ op'.chunk_count = op.chunk_count]_vars

\* C3 witness: a completed ingest has replaced the chunks of an earlier body by
\* a different number of chunks
C3_Witness ==
  /\ op.name = "ingest_document"
  /\ op.error = None
  /\ op.replaced > 0
  /\ op.chunk_count >= 2
  /\ op.chunk_count # op.replaced
  /\ Len(ChunksOfDoc(rag_doc_chunks, op.doc_id)) = op.chunk_count

\* C4: after every step the store holds at most one document per doc_id, and
\* the document of an upserted doc_id has the type, title, body and report_date
\* of the most recent upsert; an upsert of an absent doc_id adds one row, an
\* upsert of a present doc_id adds none, and an upsert that repeats the
\* preceding one leaves all stored fields but created_at as they were.
C4_UpsertReplaces ==
  [][/\ \A id \in StoreDocIds :
          /\ Len(DocsWithId(rag_docs', id)) <= 1
          /\ upserted'[id] # <<>>
               => /\ Len(DocsWithId(rag_docs', id)) = 1
                  /\ StoredFields(DocsWithId(rag_docs', id)[1]) = upserted'[id][1]
     /\ \A name \in {"upsert_document", "upsert_report_doc"} :
          Completes(name) =>
            /\ Len(rag_docs') = Len(rag_docs) + (IF op'.replaced = 0 THEN 1 ELSE 0)
            /\ StoredFields(DocsWithId(rag_docs', op'.doc_id)[1])
                 = [doc_id |-> op'.doc_id, doc_type_id |-> op'.doc_type_id,
                    title |-> op'.title, body_md |-> op'.body_md,
                    report_date |-> op'.report_date]
            /\ \A i \in 1..Len(rag_docs) :
                 rag_docs[i].doc_id # op'.doc_id => rag_docs'[i] = rag_docs[i]
            /\ (/\ op.name \in {"upsert_document", "upsert_report_doc"}
                /\ op.error = None
                /\ StoredFields(op) = StoredFields(op'))
                 => [i \in 1..Len(rag_docs') |-> StoredFields(rag_docs'[i])]
                      = [i \in 1..Len(rag_docs) |-> StoredFields(rag_docs[i])]]_vars

\* C4 witness: an upsert has replaced the document of a doc_id whose stored
\* fields all differed, next to a document of another doc_id
C4_Witness ==
  /\ op.name = "upsert_document"
  /\ op.error = None
  /\ op.replaced = 1
  /\ op.doc_type_id = DOC_TYPE_DAILY
  /\ op.title = "Retitled"
  /\ Len(rag_docs) >= 2
  /\ \A id \in StoreDocIds : upserted[id] # <<>>

(***************************************************************************)
(* Retrieval on a store that holds reports (specification SpecRag): the    *)
(* calls of VectorStore.similarity_search and of the search endpoint.      *)
(***************************************************************************)
\* a store after two daily reports and one custom report were saved, built
\* with the operations that save them
SeedDocs ==
  LET rule == << RuleRow(RULE_DOC_ID, <<"r">>, 0) >>
      d1 == upsert_report_doc(rule, doc_id_for_daily(Day(2026, 1, 12)), DOC_TYPE_DAILY,
                              DailyTitle(Day(2026, 1, 12)),
                              <<"a", "b", NL, NL, "c", "d">>, Day(2026, 1, 12), 1)
      d2 == upsert_document(d1, new_report_id("report_custom", 0), DOC_TYPE_CUSTOM,
                            "Custom Report", <<"a", "b", "c", "d", "e", "f">>,
                            Day(2026, 11, 2), 2)
  IN upsert_report_doc(d2, doc_id_for_daily(Day(2026, 11, 2)), DOC_TYPE_DAILY,
                       DailyTitle(Day(2026, 11, 2)), <<"a", "b">>, Day(2026, 11, 2), 3)

RECURSIVE IngestAll(_, _)
IngestAll(docs, chunk_rows) ==
  IF docs = <<>> THEN chunk_rows
  ELSE IngestAll(Tail(docs),
                 IF Head(docs).doc_type_id = DOC_TYPE_RULE THEN chunk_rows
                 ELSE ingest_document(chunk_rows, Head(docs).doc_id, Head(docs).body_md,
                                      ChunkMaxChars, ChunkOverlap, "none", 0).chunk_rows)

\* the stores a retrieval may find: empty, the rule document only, reports
StoreSetups ==
  { [docs |-> <<>>, chunk_rows |-> <<>>],
    [docs |-> << RuleRow(RULE_DOC_ID, <<"r">>, 0) >>, chunk_rows |-> <<>>],
    [docs |-> SeedDocs, chunk_rows |-> IngestAll(SeedDocs, <<>>)] }

InitRag ==
  /\ \E st \in StoreSetups : rag_docs = st.docs /\ rag_doc_chunks = st.chunk_rows
  /\ clock = 4
  /\ runs = 0
  /\ pc = [p \in Procs |-> "idle"]
  /\ report_day = [p \in Procs |-> NoDate]
  /\ save = [p \in Procs |-> FALSE]
  /\ final_md = [p \in Procs |-> <<>>]
  /\ chunks = [p \in Procs |-> <<>>]
  /\ tx = [p \in Procs |-> <<>>]
  /\ exc = [p \in Procs |-> None]
  /\ result = [p \in Procs |-> NoResult]
  /\ raised = [p \in Procs |-> FALSE]
  /\ trail = [p \in Procs |-> NoTrail]
  /\ latest_body = [d \in ReportDays |-> <<>>]
  /\ ops = 0
  /\ op = NoOp
  /\ upserted = [id \in StoreDocIds |-> <<>>]
  /\ call = NoCall

\* query texts, type filters, date ranges and dates of the calls of the model
SearchQueries == { <<"a">>, <<"d">>, <<"c", "d">> }
TypeFilters == { <<>>, <<DOC_TYPE_DAILY>>, <<DOC_TYPE_CUSTOM, DOC_TYPE_RULE>> }
TypeNames == { <<>>, <<"DAILY">>, <<"CUSTOM", "NOTE">>, <<"NOTE">> }
DateRanges ==
  { [from |-> NoDate, to |-> NoDate],
    [from |-> Day(2026, 1, 13), to |-> NoDate],
    [from |-> Day(2025, 12, 29), to |-> Day(2026, 1, 12)] }
Todays == { Day(2026, 1, 20), Day(2026, 11, 4) }

\* the calls of a retrieval that can fail: embed_query, cur.execute
RetrievalFaults == {"none", "embed", "storage"}

\* VectorStore.similarity_search(query, top_k, doc_type_ids, date_from, date_to)
SimilaritySearch ==
  /\ \E query \in SearchQueries, top_k \in 0..MaxTopK, doc_type_ids \in TypeFilters,
        range \in DateRanges, fault \in RetrievalFaults :
       LET asked == [NoCall EXCEPT !.name = "similarity_search", !.query = query,
                                   !.top_k = top_k, !.doc_type_ids = doc_type_ids,
                                   !.date_from = range.from, !.date_to = range.to,
                                   !.retrieval_fault = fault]
       IN IF fault # "none"
          THEN call' = [asked EXCEPT !.error = RetrievalError(fault)]
          ELSE \E results \in similarity_search(rag_docs, rag_doc_chunks, query, top_k,
                                                doc_type_ids, range.from, range.to) :
                 call' = [asked EXCEPT !.results = results]
  /\ UNCHANGED <<rag_docs, rag_doc_chunks, clock, ops, op, upserted, daily_vars>>

\* app.rag_search: RAGService.search_relevant_documents(...); an exception
\* becomes the HTTP error of the request
RagSearch ==
  /\ \E query \in SearchQueries, top_k \in 0..MaxTopK, doc_types \in TypeNames,
        range \in DateRanges, fault \in RetrievalFaults :
       LET asked == [NoCall EXCEPT !.name = "rag_search", !.query = query,
                                   !.top_k = top_k, !.doc_types = doc_types,
                                   !.date_from = range.from, !.date_to = range.to,
                                   !.retrieval_fault = fault]
       IN IF fault # "none"
          THEN call' = [asked EXCEPT !.error = RetrievalError(fault)]
          ELSE \E results \in search_relevant_documents(rag_docs, rag_doc_chunks, query,
                                  doc_types, range.from, range.to, top_k) :
                 call' = [asked EXCEPT !.results = results]
  /\ UNCHANGED <<rag_docs, rag_doc_chunks, clock, ops, op, upserted, daily_vars>>

\* days = 14, the default of search_recent_daily_reports
RecentDays == 14

\* RAGService.search_recent_daily_reports(query, days, top_k), called on the
\* date today
RecentDailyReports ==
  /\ \E query \in SearchQueries, top_k \in 0..MaxTopK, today \in Todays,
        fault \in RetrievalFaults :
       LET asked == [NoCall EXCEPT !.name = "search_recent_daily_reports",
                                   !.query = query, !.top_k = top_k,
                                   !.today = today, !.retrieval_fault = fault]
       IN IF fault # "none"
          THEN call' = [asked EXCEPT !.error = RetrievalError(fault)]
          ELSE \E results \in search_recent_daily_reports(rag_docs, rag_doc_chunks, query,
                                  RecentDays, top_k, today) :
                 call' = [asked EXCEPT !.results = results]
  /\ UNCHANGED <<rag_docs, rag_doc_chunks, clock, ops, op, upserted, daily_vars>>

\* user texts and limits of the calls of the context builders
ContextQueries == { <<"a">>, <<"b">>, <<"c", "d">> }

\* the cards attached to a request
CardLists == { <<>>, << [title |-> "card", lines |-> <<"x">>] >> }

\* RAGService.build_context_for_chat(user_query, attached_cards,
\* max_context_chunks) called on the date today: the retrieved chunks, the
\* context_parts and the returned string
BuildContextForChat ==
  /\ \E query \in ContextQueries, cards \in CardLists, max_chunks \in 0..MaxTopK,
        today \in Todays, fault \in RetrievalFaults :
       LET asked == [NoCall EXCEPT !.name = "build_context_for_chat",
                                   !.query = query, !.attached_cards = cards,
                                   !.top_k = max_chunks, !.today = today,
                                   !.retrieval_fault = fault]
       IN IF fault # "none"
          THEN call' = [asked EXCEPT !.error = RetrievalError(fault)]
          ELSE \E recent_docs \in search_recent_daily_reports(rag_docs, rag_doc_chunks,
                                    query, RecentDays, max_chunks, today) :
                 call' = [asked EXCEPT
                            !.results = recent_docs,
                            !.context = ChatContext(cards, recent_docs),
                            !.text = JoinContextParts(ChatContext(cards, recent_docs))]
  /\ UNCHANGED <<rag_docs, rag_doc_chunks, clock, ops, op, upserted, daily_vars>>

\* RAGService.build_context_for_custom_report(user_request, attached_cards,
\* max_similar_reports)
BuildContextForCustomReport ==
  /\ \E query \in ContextQueries, cards \in CardLists, max_reports \in 0..MaxTopK,
        fault \in RetrievalFaults :
       LET asked == [NoCall EXCEPT !.name = "build_context_for_custom_report",
                                   !.query = query, !.attached_cards = cards,
                                   !.top_k = max_reports, !.retrieval_fault = fault]
       IN IF fault # "none"
          THEN call' = [asked EXCEPT !.error = RetrievalError(fault)]
          ELSE \E similar_reports \in search_similar_custom_reports(rag_docs,
                                        rag_doc_chunks, query, max_reports) :
                 call' = [asked EXCEPT
                            !.results = similar_reports,
                            !.context = CustomReportContext(cards, similar_reports),
                            !.text = JoinContextParts(
                                       CustomReportContext(cards, similar_reports))]
  /\ UNCHANGED <<rag_docs, rag_doc_chunks, clock, ops, op, upserted, daily_vars>>

NextRag ==
  \/ SimilaritySearch
  \/ RagSearch
  \/ RecentDailyReports
  \/ BuildContextForChat
  \/ BuildContextForCustomReport

SpecRag == InitRag /\ [][NextRag]_vars

(***************************************************************************)
(* Properties of retrieval (specification SpecRag).                        *)
(***************************************************************************)
\* the chunks of the store joined with their documents that pass the filters
\* of the last call, each with its distance to the query
Candidates ==
  LET Row(c, d) ==
        [content |-> c.content, doc_id |-> c.doc_id, title |-> d.title,
         doc_type_id |-> d.doc_type_id, report_date |-> d.report_date,
         distance |-> CosineScale - Dot(c.embedding, embed_query(call.query))]
      Passes(d) ==
        /\ call.doc_type_ids # <<>>
             => d.doc_type_id \in {call.doc_type_ids[i] : i \in 1..Len(call.doc_type_ids)}
        /\ call.date_from # NoDate
             => d.report_date # NoDate /\ DateLE(call.date_from, d.report_date)
        /\ call.date_to # NoDate
             => d.report_date # NoDate /\ DateLE(d.report_date, call.date_to)
  IN { <<i, j>> \in (1..Len(rag_doc_chunks)) \X (1..Len(rag_docs)) :
         /\ rag_doc_chunks[i].doc_id = rag_docs[j].doc_id
         /\ Passes(rag_docs[j]) }

CandidateDistance(x) ==
  CosineScale - Dot(rag_doc_chunks[x[1]].embedding, embed_query(call.query))

\* result r of the last call shows candidate x
Shows(r, x) ==
  /\ r.content = rag_doc_chunks[x[1]].content
  /\ r.doc_id = rag_doc_chunks[x[1]].doc_id
  /\ r.title = rag_docs[x[2]].title
  /\ r.doc_type_id = rag_docs[x[2]].doc_type_id
  /\ r.report_date = rag_docs[x[2]].report_date
  /\ r.distance = CandidateDistance(x)

\* C10: a similarity search that its collaborators answer returns at most
\* top_k results, in ascending distance (descending similarity), each with
\* similarity = 1 - distance; the results are distinct candidates, as many as
\* top_k allows, and no candidate left out is nearer to the query than a
\* returned one; without a candidate the result is the empty list, and a search
\* ends with an error only when the embedding provider or the storage fails.
C10_SearchReturnsNearest ==
  call.name = "similarity_search" =>
    /\ call.error # None => call.retrieval_fault # "none"
    /\ call.retrieval_fault = "none" =>
         LET res == call.results
             n == Len(res)
         IN
         /\ call.error = None
         /\ n <= call.top_k
         /\ n = IF Cardinality(Candidates) < call.top_k
                THEN Cardinality(Candidates) ELSE call.top_k
         /\ Candidates = {} => res = <<>>
         /\ \A i \in 1..n : res[i].similarity + res[i].distance = CosineScale
         /\ \A i, j \in 1..n :
              i < j => /\ res[i].distance <= res[j].distance
                       /\ res[i].similarity >= res[j].similarity
         /\ \E shown \in [1..n -> Candidates] :
              /\ \A i, j \in 1..n : i # j => shown[i] # shown[j]
              /\ \A i \in 1..n : Shows(res[i], shown[i])
              /\ \A x \in Candidates \ {shown[i] : i \in 1..n} :
                   \A i \in 1..n : res[i].distance <= CandidateDistance(x)

\* C10 witness: a search returned top_k = 2 results at different distances and
\* left out a candidate that is farther than both
C10_Witness ==
  /\ call.name = "similarity_search"
  /\ call.error = None
  /\ call.top_k = 2
  /\ Len(call.results) = 2
  /\ call.results[1].distance < call.results[2].distance
  /\ \E x \in Candidates : CandidateDistance(x) > call.results[2].distance

\* a search without a candidate has returned the empty list
C10_WitnessNoMatch ==
  /\ call.name = "similarity_search"
  /\ call.error = None
  /\ call.top_k > 0
  /\ rag_doc_chunks # <<>>
  /\ Candidates = {}
  /\ call.results = <<>>

(***************************************************************************)
(* Chat turns and custom report generations, one request at a time         *)
(* (specification SpecService).  Each request runs on a connection of its  *)
(* own that the endpoint closes in its finally clause (app.py).            *)
(***************************************************************************)
InitService == InitRag

\* last user messages of a request ("" : the request has no user message) and
\* the texts the language model returns
ChatQueries == { <<>>, <<"a">>, <<"c", "d">> }
ChatReply == <<"o", "k", SP>>
ReportReplies == { <<>>, <<"#", SP, "a", "b", "c", "d">> }

\* the calls of generate_custom_report, after the retrieval, that can fail:
\* the read of the rule document, llm.invoke, upsert_document, and the calls
\* of ingest_document
ReportFaults == {"none", "rule", "llm", "upsert"} \cup (IngestFaults \ {"none"})

\* app.chat: ChatService.process_chat(req, use_rag = True); an exception
\* becomes the HTTP error of the request
ChatTurn ==
  /\ \E query \in ChatQueries, cards \in CardLists, today \in Todays,
        retrieval_fault \in RetrievalFaults, llm_ok \in BOOLEAN :
       \E out \in generate_chat_response(rag_docs, rag_doc_chunks, query, cards, TRUE,
                                         today, retrieval_fault, llm_ok, ChatReply) :
         call' = [NoCall EXCEPT !.name = "chat", !.query = query,
                                !.attached_cards = cards, !.today = today,
                                !.retrieval_fault = retrieval_fault,
                                !.fault = IF llm_ok THEN "none" ELSE "llm",
                                !.reply = ChatReply,
                                !.context = out.context,
                                !.retrieval_error = out.retrieval_error,
                                !.llm_calls = out.llm_calls,
                                !.error = out.error,
                                !.answer = out.answer]
  /\ UNCHANGED <<rag_docs, rag_doc_chunks, clock, ops, op, upserted, daily_vars>>

\* app.report_custom: ReportService.generate_custom_report(req, use_rag = True),
\* then the close of the connection
CustomReport ==
  /\ ops < MaxReports
  /\ ops' = ops + 1
  /\ clock' = clock + 1
  /\ \E request \in ChatQueries, today \in Todays, fault \in ReportFaults,
        retrieval_fault \in RetrievalFaults, reply \in ReportReplies :
     \E k \in InsertedBeforeFault(Strip(reply), fault) :
     \E out \in generate_custom_report(rag_docs, rag_doc_chunks, request, today, clock,
                                       ops + 1, fault, retrieval_fault, reply, k) :
       /\ rag_docs' = out.docs
       /\ rag_doc_chunks' = out.chunk_rows \o conn_close(out.uncommitted)
       /\ call' = [NoCall EXCEPT !.name = "custom_report", !.query = request,
                                 !.today = today, !.fault = fault,
                                 !.retrieval_fault = retrieval_fault,
                                 !.reply = reply,
                                 !.context = out.context,
                                 !.retrieval_error = out.retrieval_error,
                                 !.llm_calls = out.llm_calls,
                                 !.error = out.error,
                                 !.answer = out.body_md,
                                 !.report_id = out.report_id]
  /\ UNCHANGED <<op, upserted, daily_vars>>

NextService ==
  \/ ChatTurn
  \/ CustomReport

SpecService == InitService /\ [][NextService]_vars

(***************************************************************************)
(* Properties of the chat and custom report requests (specification        *)
(* SpecService).                                                           *)
(***************************************************************************)
\* the last call is a chat turn or a custom report generation
ServiceCall == call.name \in {"chat", "custom_report"}

\* the collaborator call named by call.fault is made in the last call and fails
FaultReached ==
  \/ call.fault \in {"rule", "llm", "upsert", "delete"}
  \/ /\ call.fault \in {"embed", "insert", "commit"}
     /\ _chunk_markdown(Strip(call.reply), ChunkMaxChars, ChunkOverlap) # <<>>

TypeIdsNamed(doc_types) ==
  {id \in {DOC_TYPE_RULE, DOC_TYPE_DAILY, DOC_TYPE_CUSTOM} :
     \E i \in 1..Len(doc_types) :
        \/ doc_types[i] = "RULE" /\ id = DOC_TYPE_RULE
        \/ doc_types[i] = "DAILY" /\ id = DOC_TYPE_DAILY
        \/ doc_types[i] = "CUSTOM" /\ id = DOC_TYPE_CUSTOM}

\* the documents of the store that result r belongs to
ParentDocs(r) == {rag_docs[j] : j \in {k \in 1..Len(rag_docs) : rag_docs[k].doc_id = r.doc_id}}

\* document d is dated, not before date_from and not after date_to
DatedWithin(d, date_from, date_to) ==
  /\ d.report_date # NoDate
  /\ date_from # NoDate => DateLE(date_from, d.report_date)
  /\ date_to # NoDate => DateLE(d.report_date, date_to)

\* C11: the filters of a search are conjunctive: when doc_types (or
\* doc_type_ids) is given, every returned chunk belongs to a document of a
\* given type; when date_from or date_to is given, every returned chunk belongs
\* to a dated document with date_from <= report_date <= date_to; the search of
\* the recent daily reports returns only chunks of DAILY documents dated within
\* [today - days, today].
C11_FiltersConjunctive ==
  call.error = None =>
    \A i \in 1..Len(call.results) :
      \A d \in ParentDocs(call.results[i]) :
        /\ (call.name = "similarity_search" /\ call.doc_type_ids # <<>>)
             => \E k \in 1..Len(call.doc_type_ids) : d.doc_type_id = call.doc_type_ids[k]
        /\ (call.name = "rag_search" /\ call.doc_types # <<>>)
             => d.doc_type_id \in TypeIdsNamed(call.doc_types)
        /\ (/\ call.name \in {"similarity_search", "rag_search"}
            /\ (call.date_from # NoDate \/ call.date_to # NoDate))
             => DatedWithin(d, call.date_from, call.date_to)
        /\ call.name = "search_recent_daily_reports"
             => /\ d.doc_type_id = DOC_TYPE_DAILY
                /\ DatedWithin(d, DateMinusDays(call.today, RecentDays), call.today)


(***************************************************************************)
(* Properties of the context builders (specification SpecRag).             *)
(***************************************************************************)
ContextCall == call.name \in {"build_context_for_chat", "build_context_for_custom_report"}

\* the positions of piece tok in the string the last call returned
PositionsOf(tok) == {i \in 1..Len(call.text) : call.text[i] = tok}

\* the pieces that open the block of the attached data, an attached card, the
\* block of the retrieved chunks and a retrieved chunk
DataTag == IF call.name = "build_context_for_chat" THEN "[USER_ATTACHED_DATA]"
           ELSE "[CURRENT_DATA]"
CardLabel == IF call.name = "build_context_for_chat" THEN "[CARD] " ELSE "[DATA] "
RetrievedTag == IF call.name = "build_context_for_chat" THEN "[RELEVANT_PAST_INSIGHTS]"
                ELSE "[SIMILAR_PAST_REPORTS_FOR_REFERENCE]"
ChunkLabel == IF call.name = "build_context_for_chat" THEN "[PAST_REPORT] "
              ELSE "[REFERENCE_REPORT] "

\* C12: a context builder that its collaborators answer returns the attached
\* data first and the retrieved chunks second, one entry per attached card and
\* one per retrieved chunk, at most max_context_chunks retrieved chunks, and
\* the empty string exactly when there is neither an attached card nor a
\* retrieved chunk.
C12_ContextBlocksInOrder ==
  (ContextCall /\ call.error = None) =>
    /\ call.text = <<>> <=> (call.attached_cards = <<>> /\ call.results = <<>>)
    /\ Cardinality(PositionsOf(DataTag)) = (IF call.attached_cards = <<>> THEN 0 ELSE 1)
    /\ Cardinality(PositionsOf(RetrievedTag)) = (IF call.results = <<>> THEN 0 ELSE 1)
    /\ Cardinality(PositionsOf(CardLabel)) = Len(call.attached_cards)
    /\ Cardinality(PositionsOf(ChunkLabel)) = Len(call.results)
    /\ Cardinality(PositionsOf(ChunkLabel)) <= call.top_k
    /\ call.text # <<>>
         => call.text[1] = (IF call.attached_cards # <<>> THEN DataTag ELSE RetrievedTag)
    /\ \A i \in PositionsOf(DataTag) \cup PositionsOf(CardLabel) :
         \A j \in PositionsOf(RetrievedTag) \cup PositionsOf(ChunkLabel) : i < j

\* C12 witness: a chat context with an attached card and one retrieved chunk,
\* the limit of one chunk having kept a second recent chunk out
C12_Witness ==
  /\ call.name = "build_context_for_chat"
  /\ call.error = None
  /\ call.attached_cards # <<>>
  /\ call.top_k = 1
  /\ Len(call.results) = 1
  /\ Cardinality({i \in 1..Len(rag_doc_chunks) :
                    /\ rag_doc_chunks[i].doc_id = doc_id_for_daily(Day(2026, 1, 12))
                    /\ AboveThreshold(SearchResult(
                         [content |-> <<>>, doc_id |-> None, title |-> None,
                          doc_type_id |-> DOC_TYPE_DAILY, report_date |-> NoDate,
                          distance |-> VECTOR_DISTANCE(rag_doc_chunks[i].embedding,
                                                       embed_query(call.query))]))}) = 2
  /\ call.today = Day(2026, 1, 20)
  /\ PositionsOf("[USER_ATTACHED_DATA]") = {1}
  /\ PositionsOf("[RELEVANT_PAST_INSIGHTS]") # {}

\* a context builder without attached data and without a retrieved chunk has
\* returned the empty string
C12_WitnessEmpty ==
  /\ ContextCall
  /\ call.error = None
  /\ call.retrieval_fault = "none"
  /\ call.top_k > 0
  /\ rag_doc_chunks # <<>>
  /\ call.attached_cards = <<>>
  /\ call.results = <<>>
  /\ call.text = <<>>


(***************************************************************************)
(* The chunker on its own (specification SpecChunk): _simple_md_chunk is   *)
(* called on a text and runs its loop, one paragraph per step.  call holds *)
(* the arguments, the paragraphs still to come, chunks and buf.            *)
(***************************************************************************)
\* the letters of the texts: the letter at a position is that position's own
Letters == <<"a", "b", "c", "d", "e", "f", "g", "h", "i", "j">>

\* the texts of at most MaxTextLen characters made of letters, spaces and
\* newlines
Texts ==
  { [i \in 1..Len(shape) |-> IF shape[i] = "x" THEN Letters[i] ELSE shape[i]] :
    shape \in UNION { [1..k -> {"x", SP, NL}] : k \in 0..MaxTextLen } }

\* the values of overlap of the calls; max_chars is ChunkMaxChars
Overlaps == {0, ChunkOverlap}

InitChunk ==
  /\ rag_docs = <<>>
  /\ rag_doc_chunks = <<>>
  /\ clock = 0
  /\ runs = 0
  /\ pc = [p \in Procs |-> "idle"]
  /\ report_day = [p \in Procs |-> NoDate]
  /\ save = [p \in Procs |-> FALSE]
  /\ final_md = [p \in Procs |-> <<>>]
  /\ chunks = [p \in Procs |-> <<>>]
  /\ tx = [p \in Procs |-> <<>>]
  /\ exc = [p \in Procs |-> None]
  /\ result = [p \in Procs |-> NoResult]
  /\ raised = [p \in Procs |-> FALSE]
  /\ trail = [p \in Procs |-> NoTrail]
  /\ latest_body = [d \in ReportDays |-> <<>>]
  /\ ops = 0
  /\ op = NoOp
  /\ upserted = [id \in StoreDocIds |-> <<>>]
  /\ \E md \in Texts, overlap \in Overlaps :
       call = [name |-> "_simple_md_chunk", md |-> md, max_chars |-> ChunkMaxChars,
               overlap |-> overlap, stage |-> "called", paras |-> <<>>,
               chunks |-> <<>>, buf |-> <<>>]

\* md = (md or "").strip(); if not md: return []; paras = re.split(...)
ChunkEnter ==
  /\ call.stage = "called"
  /\ call' = IF Strip(call.md) = <<>>
             THEN [call EXCEPT !.stage = "returned"]
             ELSE [call EXCEPT !.stage = "loop", !.paras = SplitParas(Strip(call.md))]
  /\ UNCHANGED <<rag_docs, rag_doc_chunks, clock, ops, op, upserted, daily_vars>>

\* one iteration of "for p in paras"
ChunkPara ==
  /\ call.stage = "loop"
  /\ call.paras # <<>>
  /\ LET st == ChunkStep([chunks |-> call.chunks, buf |-> call.buf], Head(call.paras),
                         call.max_chars, call.overlap)
     IN call' = [call EXCEPT !.paras = Tail(call.paras), !.chunks = st.chunks,
                             !.buf = st.buf]
  /\ UNCHANGED <<rag_docs, rag_doc_chunks, clock, ops, op, upserted, daily_vars>>

\* flush_buf(); return chunks
ChunkReturn ==
  /\ call.stage = "loop"
  /\ call.paras = <<>>
  /\ LET st == flush_buf([chunks |-> call.chunks, buf |-> call.buf])
     IN call' = [call EXCEPT !.stage = "returned", !.chunks = st.chunks, !.buf = st.buf]
  /\ UNCHANGED <<rag_docs, rag_doc_chunks, clock, ops, op, upserted, daily_vars>>

NextChunk ==
  \/ ChunkEnter
  \/ ChunkPara
  \/ ChunkReturn

SpecChunk == InitChunk /\ [][NextChunk]_vars

(***************************************************************************)
(* Properties of the chunker (specification SpecChunk).                    *)
(***************************************************************************)
Returned == call.stage = "returned"

\* C13: a chunk is never longer than max_chars and never empty, and an empty
\* or whitespace-only text yields no chunk.
C13_ChunksBounded ==
  Returned =>
    /\ \A i \in 1..Len(call.chunks) :
         /\ Len(call.chunks[i]) <= call.max_chars
         /\ call.chunks[i] # <<>>
    /\ (\A i \in 1..Len(call.md) : IsSpace(call.md[i])) => call.chunks = <<>>


\* the non-empty paragraphs of the text of the call, stripped
InputParagraphs ==
  LET paras == SplitParas(Strip(call.md))
  IN { Strip(paras[i]) : i \in {k \in 1..Len(paras) : Strip(paras[k]) # <<>>} }

\* character c occurs in a chunk
InSomeChunk(c) ==
  \E k \in 1..Len(call.chunks) : \E j \in 1..Len(call.chunks[k]) : call.chunks[k][j] = c

\* the positions in the text of the letters of chunk c (a letter occurs once
\* in a text)
LetterPositions(c) ==
  {i \in 1..Len(call.md) : ~IsSpace(call.md[i]) /\ \E j \in 1..Len(c) : c[j] = call.md[i]}

\* the chunks keep the order of the text: within a chunk the letters come as
\* in the text, and of two chunks with letters the later one neither starts
\* nor ends before the earlier one
InInputOrder ==
  /\ \A k \in 1..Len(call.chunks) :
       \A i, j \in 1..Len(call.chunks[k]) :
         (i < j /\ ~IsSpace(call.chunks[k][i]) /\ ~IsSpace(call.chunks[k][j]))
           => \A a \in LetterPositions(<<call.chunks[k][i]>>) :
                \A b \in LetterPositions(<<call.chunks[k][j]>>) : a < b
  /\ \A k, l \in 1..Len(call.chunks) :
       (k < l /\ LetterPositions(call.chunks[k]) # {} /\ LetterPositions(call.chunks[l]) # {})
         => /\ \E a \in LetterPositions(call.chunks[k]) :
                 \A b \in LetterPositions(call.chunks[l]) : a <= b
            /\ \E b \in LetterPositions(call.chunks[l]) :
                 \A a \in LetterPositions(call.chunks[k]) : a <= b

NextPara == Strip(Head(call.paras))
HardSplits ==
  /\ call.stage = "loop"
  /\ call.paras # <<>>
  /\ Len(NextPara) > call.max_chars

\* the distance between the starts of two consecutive slices, the number of
\* slices emitted for NextPara, the i-th slice and the rest after the last
Stride == call.max_chars - call.overlap
SliceCount ==
  CHOOSE k \in 1..Len(NextPara) :
    /\ Len(NextPara) - (k - 1) * Stride > call.max_chars
    /\ Len(NextPara) - k * Stride <= call.max_chars
SliceAt(i) == SubSeq(NextPara, (i - 1) * Stride + 1, (i - 1) * Stride + call.max_chars)
Remainder == SubSeq(NextPara, SliceCount * Stride + 1, Len(NextPara))

\* the chunks before the hard split: those of the call, and the buffer if it
\* holds text
ChunksBeforeSplit ==
  IF Strip(call.buf) # <<>> THEN Append(call.chunks, Strip(call.buf)) ELSE call.chunks

\* the last n and the first n characters of s
LastChars(s, n) == SubSeq(s, Len(s) - n + 1, Len(s))
FirstChars(s, n) == SubSeq(s, 1, n)

BIG_RANK_MOVE == 5
REVIEW_COUNT_SPIKE == 50
MAX_REVIEW_PRODUCTS == 5
\* max_items = 30 of render_laneige_changes_block
MAX_CHANGE_ITEMS == 30

Abs(n) == IF n < 0 THEN -n ELSE n

\* abs(d.get(k) or 0) for an optional integer
AbsOrZero(opt) == IF opt = <<>> THEN 0 ELSE Abs(opt[1])

MaxOf(a, b) == IF a >= b THEN a ELSE b

safe_delta_rank(yesterday_rank, today_rank) ==
  IF yesterday_rank = <<>> \/ today_rank = <<>> THEN <<>>
  ELSE << yesterday_rank[1] - today_rank[1] >>

\* variant: entered whenever today has more brand items than yesterday
LaneigeSection_entered_on_growth(code, count_yesterday, count_today) ==
  [category |-> code, count_today |-> count_today, count_yesterday |-> count_yesterday,
   entered |-> (count_today > count_yesterday),
   exited |-> (count_yesterday >= 1 /\ count_today = 0)]

\* the section build_category_sections appends for a category with
\* count_yesterday and count_today brand items in the two TOP30 lists
LaneigeSection(code, count_yesterday, count_today) ==
  [category |-> code, count_today |-> count_today, count_yesterday |-> count_yesterday,
   entered |-> (count_yesterday = 0 /\ count_today >= 1),
   exited |-> (count_yesterday >= 1 /\ count_today = 0)]

\* ORDER BY snapshot_time DESC FETCH FIRST 1 ROWS ONLY: the rows the query can
\* return (runs at the same time come in any order)
Q_LANEIGE_LATEST_RUN(run_rows) ==
  {r \in run_rows : \A q \in run_rows : q.snapshot_time <= r.snapshot_time}

\* variant: WHERE snapshot_time <= :latest_run_time
Q_LANEIGE_PREV_RUN_not_strict(run_rows, latest_run_time) ==
  LET earlier == {r \in run_rows : r.snapshot_time <= latest_run_time}
  IN {r \in earlier : \A q \in earlier : q.snapshot_time <= r.snapshot_time}

\* WHERE snapshot_time < :latest_run_time ORDER BY snapshot_time DESC FETCH
\* FIRST 1 ROWS ONLY
Q_LANEIGE_PREV_RUN(run_rows, latest_run_time) ==
  LET earlier == {r \in run_rows : r.snapshot_time < latest_run_time}
  IN {r \in earlier : \A q \in earlier : q.snapshot_time <= r.snapshot_time}

\* the place of a product name in ORDER BY lp.product_name
NameOrder(name) ==
  CASE name = "Cream Skin" -> 1 [] name = "Sleeping Mask" -> 2 [] OTHER -> 3

\* Q_LANEIGE_PRODUCT_SNAPSHOTS_BY_RUN: the rows of a run ordered by name
RECURSIVE OrderByProductName(_)
OrderByProductName(rows) ==
  IF rows = {} THEN <<>>
  ELSE LET first == CHOOSE r \in rows :
                      \A q \in rows : NameOrder(r.product_name) <= NameOrder(q.product_name)
       IN <<first>> \o OrderByProductName(rows \ {first})

load_laneige_products_by_run(db, run_id) ==
  OrderByProductName({r \in db.product_snapshots : r.snapshot_id = run_id})

\* prev_by_pid.get(product_id): the last row of prev_rows with that id
PrevByPid(prev_rows, product_id) ==
  LET found == {i \in 1..Len(prev_rows) : prev_rows[i].product_id = product_id}
  IN IF found = {} THEN <<>>
     ELSE << prev_rows[CHOOSE i \in found : \A j \in found : j <= i] >>

\* variant: the rank deltas are latest - previous
ChangesFor_latest_minus_previous(t, prev_rows) ==
  LET p == PrevByPid(prev_rows, t.product_id) IN
  IF p # <<>>
  THEN IF t.rank_1 = p[1].rank_1 /\ t.rank_2 = p[1].rank_2 THEN <<>>
       ELSE << [product_id |-> t.product_id,
                product_snapshot_id |-> t.product_snapshot_id,
                product_name |-> t.product_name,
                today |-> t, yesterday |-> p,
                delta |-> << [rank_1 |-> safe_delta_rank(t.rank_1, p[1].rank_1),
                              rank_2 |-> safe_delta_rank(t.rank_2, p[1].rank_2),
                              review_count |-> t.review_count - p[1].review_count] >>,
                note |-> None] >>
  ELSE << [product_id |-> t.product_id,
           product_snapshot_id |-> t.product_snapshot_id,
           product_name |-> t.product_name,
           today |-> t, yesterday |-> <<>>, delta |-> <<>>,
           note |-> "NEW_PRODUCT_IN_RUN"] >>

\* one iteration of "for t in today_rows": the records it appends
ChangesFor(t, prev_rows) ==
  LET p == PrevByPid(prev_rows, t.product_id) IN
  IF p # <<>>
  THEN IF t.rank_1 = p[1].rank_1 /\ t.rank_2 = p[1].rank_2 THEN <<>>
       ELSE << [product_id |-> t.product_id,
                product_snapshot_id |-> t.product_snapshot_id,
                product_name |-> t.product_name,
                today |-> t, yesterday |-> p,
                delta |-> << [rank_1 |-> safe_delta_rank(p[1].rank_1, t.rank_1),
                              rank_2 |-> safe_delta_rank(p[1].rank_2, t.rank_2),
                              review_count |-> t.review_count - p[1].review_count] >>,
                note |-> None] >>
  ELSE << [product_id |-> t.product_id,
           product_snapshot_id |-> t.product_snapshot_id,
           product_name |-> t.product_name,
           today |-> t, yesterday |-> <<>>, delta |-> <<>>,
           note |-> "NEW_PRODUCT_IN_RUN"] >>

RECURSIVE ChangesOf(_, _)
ChangesOf(today_rows, prev_rows) ==
  IF today_rows = <<>> THEN <<>>
  ELSE ChangesFor(Head(today_rows), prev_rows) \o ChangesOf(Tail(today_rows), prev_rows)

\* change_score: d = ch.get("delta") or {}
change_score(ch) ==
  IF ch.delta = <<>> THEN 0
  ELSE MaxOf(MaxOf(AbsOrZero(ch.delta[1].rank_1), AbsOrZero(ch.delta[1].rank_2)),
             Abs(ch.delta[1].review_count))

\* the place of x in a list sorted by score, reverse = True: list.sort is
\* stable, so x goes after the records that score as much as x
RECURSIVE InsertByScore(_, _)
InsertByScore(sorted, x) ==
  IF sorted = <<>> THEN <<x>>
  ELSE IF change_score(Head(sorted)) >= change_score(x)
       THEN <<Head(sorted)>> \o InsertByScore(Tail(sorted), x)
       ELSE <<x>> \o sorted

\* variant: the changes are left in the order of the rows
RECURSIVE SortChanges_unsorted(_)
SortChanges_unsorted(changes) ==
  IF changes = <<>> THEN <<>>
  ELSE Append(SortChanges_unsorted(SubSeq(changes, 1, Len(changes) - 1)),
              changes[Len(changes)])

\* changes.sort(key = change_score, reverse = True)
RECURSIVE SortChanges(_)
SortChanges(changes) ==
  IF changes = <<>> THEN <<>>
  ELSE InsertByScore(SortChanges(SubSeq(changes, 1, Len(changes) - 1)),
                     changes[Len(changes)])

\* build_laneige_changes: the results it can return on the tables db
build_laneige_changes(db) ==
  IF Q_LANEIGE_LATEST_RUN(db.runs) = {}
  THEN { [ok |-> FALSE, reason |-> "NO_LANEIGE_RUN", changes |-> <<>>,
          runs |-> [latest |-> <<>>, prev |-> <<>>]] }
  ELSE UNION {
         IF Q_LANEIGE_PREV_RUN(db.runs, latest.snapshot_time) = {}
         THEN { [ok |-> FALSE, reason |-> "NO_PREV_LANEIGE_RUN", changes |-> <<>>,
                 runs |-> [latest |-> <<latest>>, prev |-> <<>>]] }
         ELSE { [ok |-> TRUE, reason |-> None,
                 changes |-> SortChanges(ChangesOf(
                               load_laneige_products_by_run(db, latest.snapshot_id),
                               load_laneige_products_by_run(db, prev.snapshot_id))),
                 runs |-> [latest |-> <<latest>>, prev |-> <<prev>>]] :
                prev \in Q_LANEIGE_PREV_RUN(db.runs, latest.snapshot_time) } :
         latest \in Q_LANEIGE_LATEST_RUN(db.runs) }

\* variant: the spike needs more than REVIEW_COUNT_SPIKE new reviews
decide_review_include_above_spike(category_sections, laneige_changes) ==
  LET changes == laneige_changes.changes
      reasons ==
        (IF \E i \in 1..Len(category_sections) :
              category_sections[i].entered \/ category_sections[i].exited
         THEN <<"TOP30 entry/exit">> ELSE <<>>)
        \o
        (IF \E i \in 1..Len(changes) :
              /\ changes[i].delta # <<>>
              /\ \/ /\ changes[i].delta[1].rank_1 # <<>>
                    /\ Abs(changes[i].delta[1].rank_1[1]) >= BIG_RANK_MOVE
                 \/ /\ changes[i].delta[1].rank_2 # <<>>
                    /\ Abs(changes[i].delta[1].rank_2[1]) >= BIG_RANK_MOVE
         THEN <<"big rank move">> ELSE <<>>)
        \o
        (IF \E i \in 1..Len(changes) :
              /\ changes[i].delta # <<>>
              /\ changes[i].delta[1].review_count > REVIEW_COUNT_SPIKE
         THEN <<"review count spike">> ELSE <<>>)
  IN [include_review |-> Len(reasons) > 0, review_reasons |-> reasons]

\* decide_review_include: (len(reasons) > 0, reasons); the three reason
\* strings are named by their English meaning
decide_review_include(category_sections, laneige_changes) ==
  LET changes == laneige_changes.changes
      reasons ==
        (IF \E i \in 1..Len(category_sections) :
              category_sections[i].entered \/ category_sections[i].exited
         THEN <<"TOP30 entry/exit">> ELSE <<>>)
        \o
        (IF \E i \in 1..Len(changes) :
              /\ changes[i].delta # <<>>
              /\ \/ /\ changes[i].delta[1].rank_1 # <<>>
                    /\ Abs(changes[i].delta[1].rank_1[1]) >= BIG_RANK_MOVE
                 \/ /\ changes[i].delta[1].rank_2 # <<>>
                    /\ Abs(changes[i].delta[1].rank_2[1]) >= BIG_RANK_MOVE
         THEN <<"big rank move">> ELSE <<>>)
        \o
        (IF \E i \in 1..Len(changes) :
              /\ changes[i].delta # <<>>
              /\ changes[i].delta[1].review_count >= REVIEW_COUNT_SPIKE
         THEN <<"review count spike">> ELSE <<>>)
  IN [include_review |-> Len(reasons) > 0, review_reasons |-> reasons]

\* ASPECT_NEG_RATIO_THR = 0.35 in hundredths, ASPECT_MENTION_THR,
\* MAX_ASPECTS_PER_PRODUCT
ASPECT_NEG_RATIO_THR == 35
ASPECT_MENTION_THR == 30
MAX_ASPECTS_PER_PRODUCT == 3

\* neg_ratio: 0.0 when total <= 0, else neg / total, as a fraction
neg_ratio(neg, total) ==
  IF total <= 0 THEN [num |-> 0, den |-> 1] ELSE [num |-> neg, den |-> total]

\* risk_score: neg_r * total, as a fraction
risk_score(neg_r, total) == [num |-> neg_r.num * total, den |-> neg_r.den]

\* a >= b for fractions with positive denominators
FracGE(a, b) == a.num * b.den >= b.num * a.den

\* Q_ASPECT_DETAILS_BY_PRODUCT_SNAPSHOT: the rows of a product snapshot (the
\* query does not order them)
load_aspects(aspect_rows, product_snapshot_id) ==
  {a \in aspect_rows : a.product_snapshot_id = product_snapshot_id}

\* variant: an aspect qualifies by its ratio alone
Risky_any_volume(a) ==
  FracGE(neg_ratio(a.mention_negative, a.mention_total),
         [num |-> ASPECT_NEG_RATIO_THR, den |-> 100])

\* nr >= ASPECT_NEG_RATIO_THR and total >= ASPECT_MENTION_THR
Risky(a) ==
  /\ FracGE(neg_ratio(a.mention_negative, a.mention_total),
            [num |-> ASPECT_NEG_RATIO_THR, den |-> 100])
  /\ a.mention_total >= ASPECT_MENTION_THR

\* the entry appended to risky for aspect a
RiskyEntry(a) ==
  [aspect_name |-> a.aspect_name, mention_total |-> a.mention_total,
   mention_negative |-> a.mention_negative,
   neg_ratio |-> neg_ratio(a.mention_negative, a.mention_total),
   risk_score |-> risk_score(neg_ratio(a.mention_negative, a.mention_total),
                             a.mention_total)]

\* the orders a set of entries can be listed in
RECURSIVE OrdersOf(_)
OrdersOf(entries) ==
  IF entries = {} THEN { <<>> }
  ELSE UNION { { <<e>> \o rest : rest \in OrdersOf(entries \ {e}) } : e \in entries }

\* risky.sort(key = risk_score, reverse = True); risky[:MAX_ASPECTS_PER_PRODUCT]:
\* the lists this can give (the rows come in any order, and entries of equal
\* risk_score stay in the order they came in)
RiskyAspects(aspects) ==
  { PyPrefix(sorted, MAX_ASPECTS_PER_PRODUCT) :
    sorted \in { o \in OrdersOf({RiskyEntry(a) : a \in {x \in aspects : Risky(x)}}) :
                   \A i, j \in 1..Len(o) :
                     i < j => FracGE(o[i].risk_score, o[j].risk_score) } }

\* the entries of the review products for the targets, one per target
RECURSIVE ReviewEntries(_, _)
ReviewEntries(targets, aspect_rows) ==
  IF targets = <<>> THEN { <<>> }
  ELSE { << [product_id |-> Head(targets).product_id,
             product_name |-> Head(targets).product_name,
             aspects |-> risky, delta |-> Head(targets).delta] >> \o rest :
         risky \in RiskyAspects(load_aspects(aspect_rows,
                                             Head(targets).product_snapshot_id)),
         rest \in ReviewEntries(Tail(targets), aspect_rows) }

\* variant: every change gets an entry
build_review_products_all(laneige_changes, aspect_rows) ==
  ReviewEntries(SortChanges(laneige_changes.changes), aspect_rows)

\* build_review_products: the MAX_REVIEW_PRODUCTS changes with the highest
\* scores, each with its risky aspects; the lists it can return
build_review_products(laneige_changes, aspect_rows) ==
  ReviewEntries(PyPrefix(SortChanges(laneige_changes.changes), MAX_REVIEW_PRODUCTS),
                aspect_rows)

\* render_review_block: a fixed sentence without products, else the reasons
\* and one block per product
render_review_block(review_products, review_reasons) ==
  IF review_products = <<>>
  THEN [placeholder |-> TRUE, reasons |-> <<>>, products |-> <<>>]
  ELSE [placeholder |-> FALSE, reasons |-> review_reasons, products |-> review_products]

\* render_laneige_changes_block: a fixed sentence without changes, else one
\* line per change, at most max_items
render_laneige_changes_block(laneige_changes, max_items) ==
  IF laneige_changes.changes = <<>>
  THEN [placeholder |-> TRUE, lines |-> <<>>]
  ELSE [placeholder |-> FALSE,
        lines |-> [i \in 1..Len(PyPrefix(laneige_changes.changes, max_items)) |->
                     [product_name |-> laneige_changes.changes[i].product_name,
                      delta |-> laneige_changes.changes[i].delta]]]

\* score of choose_one_line_insight: max(abs(rank_1 or 0), abs(rank_2 or 0))
RankScore(ch) ==
  IF ch.delta = <<>> THEN 0
  ELSE MaxOf(AbsOrZero(ch.delta[1].rank_1), AbsOrZero(ch.delta[1].rank_2))

\* choose_one_line_insight: the sentence, as its kind, the category or product
\* it names and the number it states
choose_one_line_insight(category_sections, laneige_changes) ==
  LET changes == laneige_changes.changes
      events == {i \in 1..Len(category_sections) :
                   category_sections[i].entered \/ category_sections[i].exited}
      first == CHOOSE i \in events : \A j \in events : i <= j
      \* the first change with the highest score
      bests == {i \in 1..Len(changes) :
                  \A j \in 1..Len(changes) : RankScore(changes[j]) <= RankScore(changes[i])}
      best == changes[CHOOSE i \in bests : \A j \in bests : i <= j]
      dr == IF best.delta[1].rank_1 # <<>> THEN best.delta[1].rank_1
            ELSE best.delta[1].rank_2
      Diff(i) == category_sections[i].count_today - category_sections[i].count_yesterday
      \* the first section with the largest |diff|
      cats == {i \in 1..Len(category_sections) :
                 \A j \in 1..Len(category_sections) : Abs(Diff(j)) <= Abs(Diff(i))}
      best_cat == CHOOSE i \in cats : \A j \in cats : i <= j
      fallback == [kind |-> "fallback", subject |-> None, value |-> 0]
      by_count == IF category_sections # <<>> /\ Diff(best_cat) # 0
                  THEN [kind |-> "count", subject |-> category_sections[best_cat].category,
                        value |-> Diff(best_cat)]
                  ELSE fallback
  IN IF events # {}
     THEN IF category_sections[first].entered
          THEN [kind |-> "entered", subject |-> category_sections[first].category,
                value |-> category_sections[first].count_today]
          ELSE [kind |-> "exited", subject |-> category_sections[first].category,
                value |-> category_sections[first].count_yesterday]
     ELSE IF changes # <<>> /\ RankScore(best) > 0
          THEN IF dr # <<>>
               THEN [kind |-> "rank", subject |-> best.product_name, value |-> dr[1]]
               ELSE by_count
          ELSE by_count


(***************************************************************************)
(* The facts of one run of run_daily_report (specification SpecFacts): the *)
(* tables and the sections are drawn at the start, and the run computes    *)
(* the diff, the review decision, the review block and the headline step   *)
(* by step.  call holds the tables and the locals of the run.              *)
(***************************************************************************)
\* the categories with the counts (yesterday, today) of brand items a section
\* can have
CategoryCodes == <<"skin_care", "lip_care">>
CountPairs == { <<0, 2>>, <<2, 0>>, <<1, 1>>, <<1, 2>>, <<3, 1>> }

\* the lists build_category_sections can return: a category without its two
\* snapshots has no section
SectionLists ==
  LET Sections(code) ==
        { <<>> } \cup { << LaneigeSection(code, p[1], p[2]) >> : p \in CountPairs }
  IN { s1 \o s2 : s1 \in Sections(CategoryCodes[1]), s2 \in Sections(CategoryCodes[2]) }

\* the brand products, and the ranks and review counts of a product row of the
\* latest run and of the run before it
SleepingMask == [product_id |-> 1, product_name |-> "Sleeping Mask"]
CreamSkin == [product_id |-> 2, product_name |-> "Cream Skin"]
Products == {SleepingMask, CreamSkin}
TodayValues ==
  { [rank_1 |-> <<5>>, rank_2 |-> <<>>, review_count |-> 50],
    [rank_1 |-> <<2>>, rank_2 |-> <<>>, review_count |-> 50],
    [rank_1 |-> <<9>>, rank_2 |-> <<>>, review_count |-> 99],
    [rank_1 |-> <<10>>, rank_2 |-> <<6>>, review_count |-> 100],
    [rank_1 |-> <<>>, rank_2 |-> <<1>>, review_count |-> 0],
    [rank_1 |-> <<5>>, rank_2 |-> <<6>>, review_count |-> 100],
    [rank_1 |-> <<5>>, rank_2 |-> <<2>>, review_count |-> 50] }
PrevValues ==
  { [rank_1 |-> <<5>>, rank_2 |-> <<>>, review_count |-> 50],
    [rank_1 |-> <<5>>, rank_2 |-> <<6>>, review_count |-> 50],
    [rank_1 |-> <<>>, rank_2 |-> <<>>, review_count |-> 50] }
OldValues == [rank_1 |-> <<1>>, rank_2 |-> <<1>>, review_count |-> 0]

\* a row of laneige_product_snapshots joined with its product
ProductRow(run_id, product, v) ==
  [product_snapshot_id |-> 10 * run_id + product.product_id,
   snapshot_id |-> run_id, product_id |-> product.product_id,
   product_name |-> product.product_name, rank_1 |-> v.rank_1, rank_2 |-> v.rank_2,
   review_count |-> v.review_count]

\* the rows of one product in a latest run and in the run before it: in
\* neither or in the earlier run only, in the latest run only, in both
RowsOfProduct(latest_id, prev_id, product) ==
  { {} } \cup { {ProductRow(prev_id, product, p)} : p \in PrevValues }
  \cup { {ProductRow(latest_id, product, t)} : t \in TodayValues }
  \cup { {ProductRow(latest_id, product, t), ProductRow(prev_id, product, p)} :
         t \in TodayValues, p \in PrevValues }

\* the runs: the ids do not follow the times
RunOld == [snapshot_id |-> 10, snapshot_time |-> 1]
RunPrev == [snapshot_id |-> 12, snapshot_time |-> 2]
RunLatest == [snapshot_id |-> 11, snapshot_time |-> 3]
RunTwin == [snapshot_id |-> 13, snapshot_time |-> 3]

\* the tables of the brand runs: no run, one run, two or three runs at
\* different times, two runs at the same time with and without an earlier one
Databases ==
  LET OldRows == {ProductRow(RunOld.snapshot_id, product, OldValues) : product \in Products}
      SomeRows(run_id) ==
        {ProductRow(run_id, product, CHOOSE v \in TodayValues : v.rank_2 = <<1>>) :
           product \in Products}
      Rows == { mask \cup cream :
                mask \in RowsOfProduct(RunLatest.snapshot_id, RunPrev.snapshot_id,
                                       SleepingMask),
                cream \in RowsOfProduct(RunLatest.snapshot_id, RunPrev.snapshot_id,
                                        CreamSkin) }
  IN { [runs |-> {}, product_snapshots |-> {}],
       [runs |-> {RunLatest}, product_snapshots |-> SomeRows(RunLatest.snapshot_id)],
       [runs |-> {RunLatest, RunTwin},
        product_snapshots |-> SomeRows(RunLatest.snapshot_id)
                              \cup SomeRows(RunTwin.snapshot_id)],
       [runs |-> {RunLatest, RunTwin, RunOld},
        product_snapshots |-> SomeRows(RunLatest.snapshot_id)
                              \cup SomeRows(RunTwin.snapshot_id) \cup OldRows] }
     \cup { [runs |-> {RunLatest, RunPrev}, product_snapshots |-> rows] : rows \in Rows }
     \cup { [runs |-> {RunLatest, RunPrev, RunOld},
             product_snapshots |-> rows \cup OldRows] : rows \in Rows }

\* a row of laneige_aspect_details
AspectRow(product_snapshot_id, aspect_name, mention_total, mention_negative) ==
  [product_snapshot_id |-> product_snapshot_id, aspect_name |-> aspect_name,
   mention_total |-> mention_total, mention_negative |-> mention_negative]

\* the aspects of these runs: two of the Sleeping Mask of the latest run
RunAspects ==
  LET psid == ProductRow(RunLatest.snapshot_id, SleepingMask, OldValues).product_snapshot_id
  IN { AspectRow(psid, "scent", 40, 20), AspectRow(psid, "price", 40, 2) }

NoChanges == [ok |-> FALSE, reason |-> None, changes |-> <<>>,
              runs |-> [latest |-> <<>>, prev |-> <<>>]]
NoInsight == [kind |-> "none", subject |-> None, value |-> 0]

InitFacts ==
  /\ rag_docs = <<>>
  /\ rag_doc_chunks = <<>>
  /\ clock = 0
  /\ runs = 0
  /\ pc = [p \in Procs |-> "idle"]
  /\ report_day = [p \in Procs |-> NoDate]
  /\ save = [p \in Procs |-> FALSE]
  /\ final_md = [p \in Procs |-> <<>>]
  /\ chunks = [p \in Procs |-> <<>>]
  /\ tx = [p \in Procs |-> <<>>]
  /\ exc = [p \in Procs |-> None]
  /\ result = [p \in Procs |-> NoResult]
  /\ raised = [p \in Procs |-> FALSE]
  /\ trail = [p \in Procs |-> NoTrail]
  /\ latest_body = [d \in ReportDays |-> <<>>]
  /\ ops = 0
  /\ op = NoOp
  /\ upserted = [id \in StoreDocIds |-> <<>>]
  /\ \E db \in Databases, category_sections \in SectionLists :
       call = [name |-> "run_daily_report", stage |-> "sections", db |-> db,
               category_sections |-> category_sections,
               laneige_changes |-> NoChanges,
               laneige_changes_md |-> [placeholder |-> FALSE, lines |-> <<>>],
               include_review |-> FALSE, review_reasons |-> <<>>,
               review_products_built |-> FALSE, review_md |-> <<>>,
               one_line |-> NoInsight, ok |-> FALSE]

\* laneige_changes = build_laneige_changes();
\* laneige_changes_md = render_laneige_changes_block(laneige_changes, 30)
BuildLaneigeChanges ==
  /\ call.stage = "sections"
  /\ \E laneige_changes \in build_laneige_changes(call.db) :
       call' = [call EXCEPT !.stage = "changes",
                            !.laneige_changes = laneige_changes,
                            !.laneige_changes_md =
                               render_laneige_changes_block(laneige_changes,
                                                            MAX_CHANGE_ITEMS)]
  /\ UNCHANGED <<rag_docs, rag_doc_chunks, clock, ops, op, upserted, daily_vars>>

\* include_review, review_reasons = decide_review_include(...)
DecideReviewInclude ==
  /\ call.stage = "changes"
  /\ LET decided == decide_review_include(call.category_sections, call.laneige_changes)
     IN call' = [call EXCEPT !.stage = "decided",
                             !.include_review = decided.include_review,
                             !.review_reasons = decided.review_reasons]
  /\ UNCHANGED <<rag_docs, rag_doc_chunks, clock, ops, op, upserted, daily_vars>>

\* review_md = None; if include_review: review_products = ...; review_md = ...
BuildReview ==
  /\ call.stage = "decided"
  /\ IF call.include_review
     THEN \E review_products \in build_review_products(call.laneige_changes,
                                                       RunAspects) :
            call' = [call EXCEPT !.stage = "review",
                                 !.review_products_built = TRUE,
                                 !.review_md =
                                    << render_review_block(review_products,
                                                           call.review_reasons) >>]
     ELSE call' = [call EXCEPT !.stage = "review"]
  /\ UNCHANGED <<rag_docs, rag_doc_chunks, clock, ops, op, upserted, daily_vars>>

\* one_line = choose_one_line_insight(category_sections, laneige_changes)
ChooseOneLineInsight ==
  /\ call.stage = "review"
  /\ call' = [call EXCEPT !.stage = "insight",
                          !.one_line = choose_one_line_insight(call.category_sections,
                                                               call.laneige_changes)]
  /\ UNCHANGED <<rag_docs, rag_doc_chunks, clock, ops, op, upserted, daily_vars>>

\* final_md = llm_write_final_report(...) with the facts; return {"ok": True, ...}
WriteFinalReport ==
  /\ call.stage = "insight"
  /\ call' = [call EXCEPT !.stage = "done", !.ok = TRUE]
  /\ UNCHANGED <<rag_docs, rag_doc_chunks, clock, ops, op, upserted, daily_vars>>

NextFacts ==
  \/ BuildLaneigeChanges
  \/ DecideReviewInclude
  \/ BuildReview
  \/ ChooseOneLineInsight
  \/ WriteFinalReport

SpecFacts == InitFacts /\ [][NextFacts]_vars


(***************************************************************************)
(* Properties of the facts of the daily report (specification SpecFacts).  *)
(***************************************************************************)
\* the run has reached stage s or gone past it
StageOrder == <<"sections", "changes", "decided", "review", "insight", "done">>
Reached(s) ==
  \E i, j \in 1..Len(StageOrder) : StageOrder[i] = s /\ StageOrder[j] = call.stage /\ i <= j

\* the sections with an entry and with an exit, the largest |delta rank| of
\* the change records and the largest change of a section's item count
EnteredSections ==
  {i \in 1..Len(call.category_sections) : call.category_sections[i].entered}
ExitedSections ==
  {i \in 1..Len(call.category_sections) : call.category_sections[i].exited}
RankMoveOf(ch) ==
  IF ch.delta = <<>> THEN 0
  ELSE MaxOf(IF ch.delta[1].rank_1 = <<>> THEN 0 ELSE Abs(ch.delta[1].rank_1[1]),
             IF ch.delta[1].rank_2 = <<>> THEN 0 ELSE Abs(ch.delta[1].rank_2[1]))
LargestRankMove ==
  LET moves == {RankMoveOf(call.laneige_changes.changes[i]) :
                  i \in 1..Len(call.laneige_changes.changes)} \cup {0}
  IN CHOOSE m \in moves : \A n \in moves : n <= m
CountChange(i) ==
  Abs(call.category_sections[i].count_today - call.category_sections[i].count_yesterday)
LargestCountChange ==
  LET diffs == {CountChange(i) : i \in 1..Len(call.category_sections)} \cup {0}
  IN CHOOSE m \in diffs : \A n \in diffs : n <= m

\* C16: the headline is chosen by strict priority: the entry of the first
\* category with an entry; else the exit of the first category with an exit;
\* else the change record with the largest |delta rank| when that is > 0; else
\* the category with the largest change of its item count; else the fallback
\* sentence.
C16_HeadlinePriority ==
  Reached("insight") =>
    IF EnteredSections # {}
    THEN /\ call.one_line.kind = "entered"
         /\ \E i \in EnteredSections :
              /\ \A j \in EnteredSections : i <= j
              /\ call.one_line.subject = call.category_sections[i].category
    ELSE IF ExitedSections # {}
    THEN /\ call.one_line.kind = "exited"
         /\ \E i \in ExitedSections :
              /\ \A j \in ExitedSections : i <= j
              /\ call.one_line.subject = call.category_sections[i].category
    ELSE IF LargestRankMove > 0
    THEN /\ call.one_line.kind = "rank"
         /\ \E i \in 1..Len(call.laneige_changes.changes) :
              /\ RankMoveOf(call.laneige_changes.changes[i]) = LargestRankMove
              /\ call.one_line.subject = call.laneige_changes.changes[i].product_name
    ELSE IF LargestCountChange > 0
    THEN /\ call.one_line.kind = "count"
         /\ \E i \in 1..Len(call.category_sections) :
              /\ CountChange(i) = LargestCountChange
              /\ call.one_line.subject = call.category_sections[i].category
    ELSE call.one_line.kind = "fallback"


\* the three triggers of the review section, read off the facts of the run
EntryOrExit == EnteredSections # {} \/ ExitedSections # {}
BigRankMove ==
  \E i \in 1..Len(call.laneige_changes.changes) :
    RankMoveOf(call.laneige_changes.changes[i]) >= BIG_RANK_MOVE
ReviewDeltas ==
  {call.laneige_changes.changes[i].delta[1].review_count :
     i \in {k \in 1..Len(call.laneige_changes.changes) :
              call.laneige_changes.changes[k].delta # <<>>}}
ReviewSpike == \E d \in ReviewDeltas : d >= REVIEW_COUNT_SPIKE
TriggerCount ==
  (IF EntryOrExit THEN 1 ELSE 0) + (IF BigRankMove THEN 1 ELSE 0)
  + (IF ReviewSpike THEN 1 ELSE 0)

\* C17: the review section is included exactly when a trigger holds (an entry
\* or exit of a category, a change with |delta rank_1| or |delta rank_2| >= 5,
\* a change with delta review_count >= 50); each trigger that holds gives
\* exactly one reason; with no trigger the reasons are empty, the review
\* products are not built and the section is left out (review_md is None).
C17_ReviewTriggers ==
  /\ Reached("decided") =>
       /\ call.include_review <=> (EntryOrExit \/ BigRankMove \/ ReviewSpike)
       /\ Len(call.review_reasons) = TriggerCount
       /\ EntryOrExit <=>
            \E i \in 1..Len(call.review_reasons) : call.review_reasons[i] = "TOP30 entry/exit"
       /\ BigRankMove <=>
            \E i \in 1..Len(call.review_reasons) : call.review_reasons[i] = "big rank move"
       /\ ReviewSpike <=>
            \E i \in 1..Len(call.review_reasons) : call.review_reasons[i] = "review count spike"
  /\ Reached("review") =>
       /\ call.review_products_built <=> call.include_review
       /\ (call.review_md # <<>>) <=> call.include_review

\* a change of 50 reviews alone has triggered the section
C17_Witness ==
  /\ call.stage = "done"
  /\ ~EntryOrExit /\ ~BigRankMove
  /\ \A d \in ReviewDeltas : d <= REVIEW_COUNT_SPIKE
  /\ call.review_reasons = <<"review count spike">>
  /\ call.review_md # <<>>

\* a change of 49 reviews with a rank move of 4 has not: the section is left out
C17_WitnessOmitted ==
  /\ call.stage = "done"
  /\ REVIEW_COUNT_SPIKE - 1 \in ReviewDeltas
  /\ \E i \in 1..Len(call.laneige_changes.changes) :
       RankMoveOf(call.laneige_changes.changes[i]) = BIG_RANK_MOVE - 1
  /\ ~call.include_review /\ call.review_reasons = <<>>
  /\ ~call.review_products_built /\ call.review_md = <<>>


\* the rows of the latest run and of the run before it that the diffing read,
\* and the places of a product's records in the list of changes
LatestRows ==
  {r \in call.db.product_snapshots :
     r.snapshot_id = call.laneige_changes.runs.latest[1].snapshot_id}
PrecedingRows ==
  {r \in call.db.product_snapshots :
     r.snapshot_id = call.laneige_changes.runs.prev[1].snapshot_id}
Counterparts(t) == {p \in PrecedingRows : p.product_id = t.product_id}
RecordsOf(t) ==
  {i \in 1..Len(call.laneige_changes.changes) :
     call.laneige_changes.changes[i].product_id = t.product_id}
\* previous - latest when the field is present in both rows, None otherwise
ExpectedRankDelta(previous, latest) ==
  IF previous # <<>> /\ latest # <<>> THEN << previous[1] - latest[1] >> ELSE <<>>

\* C18: for each product of the latest run the diffing emits exactly one of:
\* nothing, when its counterpart (same product_id) of the preceding run has
\* the same rank_1 and the same rank_2; one ChangeRecord with delta rank_k =
\* previous - latest for each rank field present in both runs (None
\* otherwise) and delta review_count = latest - previous, when a rank field
\* differs; one record tagged NEW_PRODUCT_IN_RUN with no delta, when there is
\* no counterpart. No other record is emitted.
C18_RunDiffing ==
  (Reached("changes") /\ call.laneige_changes.ok) =>
    /\ \A t \in LatestRows :
         IF Counterparts(t) = {}
         THEN /\ Cardinality(RecordsOf(t)) = 1
              /\ \A i \in RecordsOf(t) :
                   /\ call.laneige_changes.changes[i].note = "NEW_PRODUCT_IN_RUN"
                   /\ call.laneige_changes.changes[i].delta = <<>>
         ELSE \A p \in Counterparts(t) :
                IF t.rank_1 = p.rank_1 /\ t.rank_2 = p.rank_2
                THEN RecordsOf(t) = {}
                ELSE /\ Cardinality(RecordsOf(t)) = 1
                     /\ \A i \in RecordsOf(t) :
                          /\ call.laneige_changes.changes[i].note # "NEW_PRODUCT_IN_RUN"
                          /\ call.laneige_changes.changes[i].delta =
                               << [rank_1 |-> ExpectedRankDelta(p.rank_1, t.rank_1),
                                   rank_2 |-> ExpectedRankDelta(p.rank_2, t.rank_2),
                                   review_count |-> t.review_count - p.review_count] >>
    /\ \A i \in 1..Len(call.laneige_changes.changes) :
         \E t \in LatestRows : i \in RecordsOf(t)

\* rank_1 5 -> 2 with the same reviews and no rank_2 has given delta rank_1 =
\* +3, review_count = 0, rank_2 = None; the other product is new in the run
C18_Witness ==
  /\ call.stage = "done"
  /\ Len(call.laneige_changes.changes) = 2
  /\ \E i, j \in 1..2 :
       /\ call.laneige_changes.changes[i].delta =
            << [rank_1 |-> <<3>>, rank_2 |-> <<>>, review_count |-> 0] >>
       /\ call.laneige_changes.changes[i].today.rank_1 = <<2>>
       /\ call.laneige_changes.changes[i].yesterday[1].rank_1 = <<5>>
       /\ call.laneige_changes.changes[j].note = "NEW_PRODUCT_IN_RUN"
       /\ call.laneige_changes.changes[j].delta = <<>>

\* a product with 50 more reviews and the same two ranks has given no record
C18_WitnessUnchanged ==
  /\ call.stage = "done"
  /\ call.laneige_changes.ok
  /\ \E t \in LatestRows :
       /\ RecordsOf(t) = {}
       /\ \E p \in Counterparts(t) : t.review_count - p.review_count = REVIEW_COUNT_SPIKE


\* the significance of a change record: max(|delta rank_1|, |delta rank_2|,
\* |delta review_count|), a delta that is absent counting as 0
Significance(ch) ==
  LET parts == IF ch.delta = <<>> THEN {0}
               ELSE {0, Abs(ch.delta[1].review_count)}
                    \cup {Abs(ch.delta[1].rank_1[k]) : k \in 1..Len(ch.delta[1].rank_1)}
                    \cup {Abs(ch.delta[1].rank_2[k]) : k \in 1..Len(ch.delta[1].rank_2)}
  IN CHOOSE m \in parts : \A n \in parts : n <= m

\* C19: the list of ChangeRecords returned by build_laneige_changes has the
\* most significant change first: the significance is non-increasing along
\* the list, so a NEW_PRODUCT_IN_RUN record (significance 0) never precedes a
\* record with a positive significance.
C19_ChangesBySignificance ==
  Reached("changes") =>
    \A i, j \in 1..Len(call.laneige_changes.changes) :
      i < j =>
        /\ Significance(call.laneige_changes.changes[i])
             >= Significance(call.laneige_changes.changes[j])
        /\ call.laneige_changes.changes[i].note = "NEW_PRODUCT_IN_RUN" =>
             Significance(call.laneige_changes.changes[j]) = 0

\* the product that is first by name is new in the run, and its record has
\* been placed after a record with a positive significance
C19_Witness ==
  /\ call.stage = "done"
  /\ Len(call.laneige_changes.changes) = 2
  /\ Significance(call.laneige_changes.changes[1]) > 0
  /\ call.laneige_changes.changes[2].note = "NEW_PRODUCT_IN_RUN"
  /\ NameOrder(call.laneige_changes.changes[2].product_name)
       < NameOrder(call.laneige_changes.changes[1].product_name)


\* the runs of the table that are strictly earlier than run latest
EarlierRuns(latest) ==
  {r \in call.db.runs : r.snapshot_time < latest.snapshot_time}

\* C20: without any run the diffing returns the result tagged NO_LANEIGE_RUN,
\* and when the latest run has no strictly earlier run the result tagged
\* NO_PREV_LANEIGE_RUN, both with an empty list of changes and without
\* failing; the pipeline goes on with that result (every later stage can
\* be taken, and the run ends with ok = True); the preceding run, when there
\* is one, is a run with the greatest timestamp strictly less than the
\* timestamp of the latest run.
C20_NoDataResults ==
  Reached("changes") =>
    /\ call.db.runs = {} =>
         /\ ~call.laneige_changes.ok
         /\ call.laneige_changes.reason = "NO_LANEIGE_RUN"
         /\ call.laneige_changes.changes = <<>>
    /\ call.db.runs # {} =>
         /\ call.laneige_changes.runs.latest # <<>>
         /\ LET latest == call.laneige_changes.runs.latest[1] IN
            /\ latest \in call.db.runs
            /\ \A r \in call.db.runs : r.snapshot_time <= latest.snapshot_time
            /\ IF EarlierRuns(latest) = {}
               THEN /\ ~call.laneige_changes.ok
                    /\ call.laneige_changes.reason = "NO_PREV_LANEIGE_RUN"
                    /\ call.laneige_changes.changes = <<>>
                    /\ call.laneige_changes.runs.prev = <<>>
               ELSE /\ call.laneige_changes.ok
                    /\ call.laneige_changes.runs.prev # <<>>
                    /\ call.laneige_changes.runs.prev[1] \in EarlierRuns(latest)
                    /\ \A r \in EarlierRuns(latest) :
                         r.snapshot_time
                           <= call.laneige_changes.runs.prev[1].snapshot_time
    /\ ~call.laneige_changes.ok =>
         /\ call.laneige_changes_md.placeholder
         /\ call.stage # "done" => ENABLED NextFacts
         /\ call.stage = "done" => call.ok

\* two runs with the same timestamp and none before them: the run has ended
\* with the result NO_PREV_LANEIGE_RUN
C20_Witness ==
  /\ call.stage = "done" /\ call.ok
  /\ Cardinality(call.db.runs) = 2
  /\ call.laneige_changes.reason = "NO_PREV_LANEIGE_RUN"
  /\ call.laneige_changes.changes = <<>>

\* no run at all: the run has ended with the result NO_LANEIGE_RUN
C20_WitnessNoRun ==
  /\ call.stage = "done" /\ call.ok
  /\ call.db.runs = {}
  /\ call.laneige_changes.reason = "NO_LANEIGE_RUN"

\* three runs, two with the same latest timestamp: the preceding run is the
\* third one
C20_WitnessPreceding ==
  /\ call.stage = "done"
  /\ call.laneige_changes.ok
  /\ \E r \in call.db.runs :
       /\ r # call.laneige_changes.runs.latest[1]
       /\ r.snapshot_time = call.laneige_changes.runs.latest[1].snapshot_time
  /\ call.laneige_changes.runs.prev[1].snapshot_time
       < call.laneige_changes.runs.latest[1].snapshot_time


(***************************************************************************)
(* build_category_sections: the two ranking snapshots of each category and *)
(* the brand items of their TOP30 lists.  A product name is a sequence of  *)
(* characters; times are hours counted from the start of the day before    *)
(* the report day.                                                         *)
(***************************************************************************)
\* movers = movers[:5]
MAX_MOVERS == 5

\* str.lower() on the letters the names are written with
Lower(c) == CASE c = "L" -> "l" [] c = "C" -> "c" [] OTHER -> c

\* re.sub(r"\s+", " ", s)
RECURSIVE CollapseSpaces(_)
CollapseSpaces(s) ==
  IF s = <<>> THEN <<>>
  ELSE IF IsSpace(Head(s))
       THEN <<SP>> \o CollapseSpaces(LStrip(s))
       ELSE <<Head(s)>> \o CollapseSpaces(Tail(s))

\* the characters re.sub(r"[^\w\s\-\(\)\[\]\.,&/+:]", "", s) keeps
KeptChars ==
  {"l", "i", "p", "c", "r", "x", SP, NL, "-", "(", ")", "[", "]", ".", ",", "&", "/", "+", ":"}

\* normalize_product_name: strip, lower, one space per run of whitespace,
\* then the other characters are removed
normalize_product_name(name) ==
  LET s == [k \in 1..Len(Strip(name)) |-> Lower(Strip(name)[k])]
  IN SelectSeq(CollapseSpaces(s), LAMBDA c : c \in KeptChars)

\* Q_RANKING_SNAPSHOT_AT_OR_BEFORE: the rows the query can return (snapshots
\* of a category taken at the same time come in any order)
Q_RANKING_SNAPSHOT_AT_OR_BEFORE(snapshot_rows, category_id, target_time) ==
  LET found == {r \in snapshot_rows :
                  r.category_id = category_id /\ r.snapshot_time <= target_time}
  IN {r \in found : \A q \in found : q.snapshot_time <= r.snapshot_time}

\* [it for it in items if it["is_laneige"] == "Y"]
BrandItems(items) == SelectSeq(items, LAMBDA it : it.is_laneige = "Y")

\* ymap.get(key): the last item of yday_laneige with that normalized name
YMapGet(yday_laneige, key) ==
  LET found == {k \in 1..Len(yday_laneige) :
                  normalize_product_name(yday_laneige[k].product_name) = key}
  IN IF found = {} THEN <<>>
     ELSE << yday_laneige[CHOOSE k \in found : \A j \in found : j <= k] >>

\* "for it in today_laneige": the movers appended, in the order of the items
RECURSIVE MoversOf(_, _)
MoversOf(today_laneige, yday_laneige) ==
  IF today_laneige = <<>> THEN <<>>
  ELSE LET it == Head(today_laneige)
           y == YMapGet(yday_laneige, normalize_product_name(it.product_name))
       IN (IF y = <<>> THEN <<>>
           ELSE << [product_name |-> it.product_name, today_rank |-> it.rank,
                    yesterday_rank |-> y[1].rank,
                    delta_rank |-> safe_delta_rank(<<y[1].rank>>, <<it.rank>>)[1]] >>)
          \o MoversOf(Tail(today_laneige), yday_laneige)

\* unmatched: the today items without an entry in ymap
UnmatchedOf(today_laneige, yday_laneige) ==
  Cardinality({k \in 1..Len(today_laneige) :
                 YMapGet(yday_laneige,
                         normalize_product_name(today_laneige[k].product_name)) = <<>>})

\* the place of mover x in a list sorted by |delta_rank|, reverse = True
\* (list.sort is stable)
RECURSIVE InsertMover(_, _)
InsertMover(sorted, x) ==
  IF sorted = <<>> THEN <<x>>
  ELSE IF Abs(Head(sorted).delta_rank) >= Abs(x.delta_rank)
       THEN <<Head(sorted)>> \o InsertMover(Tail(sorted), x)
       ELSE <<x>> \o sorted

\* variant: the movers are left in the order of today's items
RECURSIVE SortMovers_unsorted(_)
SortMovers_unsorted(movers) ==
  IF movers = <<>> THEN <<>>
  ELSE Append(SortMovers_unsorted(SubSeq(movers, 1, Len(movers) - 1)),
              movers[Len(movers)])

\* movers.sort(key = lambda x: abs(x["delta_rank"]), reverse = True)
RECURSIVE SortMovers(_)
SortMovers(movers) ==
  IF movers = <<>> THEN <<>>
  ELSE InsertMover(SortMovers(SubSeq(movers, 1, Len(movers) - 1)), movers[Len(movers)])

\* variant: a category whose two lookups return the same snapshot is skipped too
SkipCategory_same_snapshot(today_snaps, yday_snaps) ==
  today_snaps = {} \/ yday_snaps = {} \/ today_snaps = yday_snaps

\* if not today_snap or not yday_snap: continue
SkipCategory(today_snaps, yday_snaps) ==
  today_snaps = {} \/ yday_snaps = {}

\* the section appended for category c with the two snapshots found
CategorySection(c, today_snap, yday_snap) ==
  LET today_laneige == BrandItems(today_snap.items)
      yday_laneige == BrandItems(yday_snap.items)
  IN LaneigeSection(c.code, Len(yday_laneige), Len(today_laneige))
     @@ [today_snapshot |-> [id |-> today_snap.id, time |-> today_snap.snapshot_time],
         yesterday_snapshot |-> [id |-> yday_snap.id, time |-> yday_snap.snapshot_time],
         movers |-> PyPrefix(SortMovers(MoversOf(today_laneige, yday_laneige)),
                             MAX_MOVERS),
         unmatched_today_laneige |-> UnmatchedOf(today_laneige, yday_laneige)]

\* one iteration of "for c in cats": the sections it can append (none, or one)
CategorySections(snapshot_rows, c, today_target, yday_target) ==
  LET today_snaps == Q_RANKING_SNAPSHOT_AT_OR_BEFORE(snapshot_rows, c.id, today_target)
      yday_snaps == Q_RANKING_SNAPSHOT_AT_OR_BEFORE(snapshot_rows, c.id, yday_target)
  IN IF SkipCategory(today_snaps, yday_snaps) THEN { <<>> }
     ELSE { << CategorySection(c, today_snap, yday_snap) >> :
            today_snap \in today_snaps, yday_snap \in yday_snaps }

(***************************************************************************)
(* Specification SpecSections: build_category_sections, one category per   *)
(* step, on tables with up to two snapshots per category.                  *)
(***************************************************************************)
\* Q_CATEGORIES: the categories in the order of sort_order
Categories == << [id |-> 1, code |-> "skin_care"], [id |-> 2, code |-> "lip_care"] >>

\* make_target_dt(report_day, hour) and make_target_dt(report_day - 1 day,
\* hour) for hour 9, and the times a snapshot can have around them
TodayTarget == 33
YdayTarget == 9
SnapshotTimes == {8, 9, 10, 33, 34}

\* an item of a TOP30 list
Item(rank, product_name, is_laneige) ==
  [rank |-> rank, product_name |-> product_name, is_laneige |-> is_laneige]

\* TOP30 lists (ORDER BY rank ASC): without brand items; with two brand
\* products at two sets of ranks and spellings; with a product under two
\* spellings; with one other brand product; with six brand products
Top30Lists ==
  { << Item(1, <<"x">>, "N") >>,
    << Item(3, <<"c", "r">>, "Y"), Item(5, <<"x">>, "N"), Item(8, <<"l", "i", "p", "!">>, "Y") >>,
    << Item(3, <<"C", "r">>, "Y"), Item(20, <<SP, "L", "i", "p">>, "Y") >>,
    << Item(4, <<"l", "i", "p">>, "Y"), Item(9, <<"L", "i", "p", "!">>, "Y") >>,
    << Item(2, <<"l", "i">>, "Y"), Item(3, <<"x">>, "N") >>,
    << Item(1, <<"l">>, "Y"), Item(2, <<"i">>, "Y"), Item(3, <<"p">>, "Y"),
       Item(4, <<"c">>, "Y"), Item(5, <<"r">>, "Y"), Item(6, <<"l", "i">>, "Y") >>,
    << Item(7, <<"l">>, "Y"), Item(9, <<"p">>, "Y"), Item(12, <<"r">>, "Y"),
       Item(16, <<"l", "i">>, "Y"), Item(21, <<"c">>, "Y"), Item(30, <<"i">>, "Y") >> }

\* a row of ranking_snapshots with its ranking_items
SnapshotRow(id, category_id, snapshot_time, items) ==
  [id |-> id, category_id |-> category_id, snapshot_time |-> snapshot_time,
   items |-> items]

\* the snapshots of the first category: none, one, or two; the second
\* category has none, or one before each target
RankingTables ==
  LET First(id) == {SnapshotRow(id, 1, t, items) : t \in SnapshotTimes, items \in Top30Lists}
      Firsts == { {} } \cup { {a} : a \in First(1) }
                \cup { {a, b} : a \in First(1), b \in First(2) }
      Seconds == { {},
                   { SnapshotRow(3, 2, YdayTarget, CHOOSE l \in Top30Lists : Len(l) = 1),
                     SnapshotRow(4, 2, TodayTarget, CHOOSE l \in Top30Lists : Len(l) = 6) } }
  IN { f \cup s : f \in Firsts, s \in Seconds }

InitSections ==
  /\ rag_docs = <<>>
  /\ rag_doc_chunks = <<>>
  /\ clock = 0
  /\ runs = 0
  /\ pc = [p \in Procs |-> "idle"]
  /\ report_day = [p \in Procs |-> NoDate]
  /\ save = [p \in Procs |-> FALSE]
  /\ final_md = [p \in Procs |-> <<>>]
  /\ chunks = [p \in Procs |-> <<>>]
  /\ tx = [p \in Procs |-> <<>>]
  /\ exc = [p \in Procs |-> None]
  /\ result = [p \in Procs |-> NoResult]
  /\ raised = [p \in Procs |-> FALSE]
  /\ trail = [p \in Procs |-> NoTrail]
  /\ latest_body = [d \in ReportDays |-> <<>>]
  /\ ops = 0
  /\ op = NoOp
  /\ upserted = [id \in StoreDocIds |-> <<>>]
  /\ \E snapshot_rows \in RankingTables :
       call = [name |-> "build_category_sections", ranking_snapshots |-> snapshot_rows,
               today_target |-> TodayTarget, yday_target |-> YdayTarget,
               next |-> 1, sections |-> <<>>, returned |-> FALSE]

\* one iteration of "for c in cats"
CategoryStep ==
  /\ call.name = "build_category_sections"
  /\ ~call.returned
  /\ call.next <= Len(Categories)
  /\ \E appended \in CategorySections(call.ranking_snapshots, Categories[call.next],
                                      call.today_target, call.yday_target) :
       call' = [call EXCEPT !.next = @ + 1, !.sections = @ \o appended]
  /\ UNCHANGED <<rag_docs, rag_doc_chunks, clock, ops, op, upserted, daily_vars>>

\* return sections
SectionsReturn ==
  /\ call.name = "build_category_sections"
  /\ ~call.returned
  /\ call.next > Len(Categories)
  /\ call' = [call EXCEPT !.returned = TRUE]
  /\ UNCHANGED <<rag_docs, rag_doc_chunks, clock, ops, op, upserted, daily_vars>>

NextSections ==
  \/ CategoryStep
  \/ SectionsReturn

SpecSections == InitSections /\ [][NextSections]_vars


(***************************************************************************)
(* Properties of the category sections (specification SpecSections).       *)
(***************************************************************************)
\* the snapshots of category c taken at or before a target time, and the
\* places of the sections of c in the list built so far
SnapshotsUpTo(c, target_time) ==
  {r \in call.ranking_snapshots : r.category_id = c.id /\ r.snapshot_time <= target_time}
SectionsOf(c) ==
  {k \in 1..Len(call.sections) : call.sections[k].category = c.code}
\* the snapshot row a section names
SnapshotWithId(id) == CHOOSE r \in call.ranking_snapshots : r.id = id

C21_WitnessBoth ==
  /\ call.returned
  /\ Len(call.sections) = 2
  /\ call.sections[1].today_snapshot.time > call.yday_target


\* the number of brand items of the TOP30 list of the snapshot with this id
BrandCount(id) ==
  Cardinality({k \in 1..Len(SnapshotWithId(id).items) :
                 SnapshotWithId(id).items[k].is_laneige = "Y"})

\* C22: in every emitted section, entered is true exactly when yesterday's
\* snapshot has no brand item and today's has at least one, exited is true
\* exactly when yesterday's has at least one and today's has none, and the
\* two are never both true.
C22_EnteredExited ==
  \A k \in 1..Len(call.sections) :
    LET sec == call.sections[k]
        today == BrandCount(sec.today_snapshot.id)
        yesterday == BrandCount(sec.yesterday_snapshot.id)
    IN /\ sec.count_today = today /\ sec.count_yesterday = yesterday
       /\ sec.entered <=> (yesterday = 0 /\ today >= 1)
       /\ sec.exited <=> (yesterday >= 1 /\ today = 0)
       /\ ~(sec.entered /\ sec.exited)

\* yesterday 0 and today 2 brand items: entered
C22_Witness ==
  /\ call.returned
  /\ \E k \in 1..Len(call.sections) :
       /\ call.sections[k].count_yesterday = 0 /\ call.sections[k].count_today = 2
       /\ call.sections[k].entered /\ ~call.sections[k].exited

\* yesterday 2 and today 0 brand items: exited
C22_WitnessExited ==
  /\ call.returned
  /\ \E k \in 1..Len(call.sections) :
       /\ call.sections[k].count_yesterday = 2 /\ call.sections[k].count_today = 0
       /\ call.sections[k].exited /\ ~call.sections[k].entered

\* more brand items today than yesterday, and yesterday had some: not entered
C22_WitnessGrowth ==
  /\ call.returned
  /\ \E k \in 1..Len(call.sections) :
       /\ call.sections[k].count_yesterday >= 1
       /\ call.sections[k].count_today > call.sections[k].count_yesterday
       /\ ~call.sections[k].entered


\* the brand items of the two TOP30 lists a section compares
TodayBrand(sec) == BrandItems(SnapshotWithId(sec.today_snapshot.id).items)
YdayBrand(sec) == BrandItems(SnapshotWithId(sec.yesterday_snapshot.id).items)
\* the today brand items that have a yesterday brand item of the same
\* normalized name
MatchedToday(sec) ==
  {k \in 1..Len(TodayBrand(sec)) :
     \E j \in 1..Len(YdayBrand(sec)) :
       normalize_product_name(YdayBrand(sec)[j].product_name)
         = normalize_product_name(TodayBrand(sec)[k].product_name)}

\* C23: every mover of a section pairs a today brand item with the yesterday
\* brand item of the same normalized name and has delta_rank = yesterday_rank
\* - today_rank; the today items without a match are counted in unmatched
\* and appear in no mover; the movers are sorted by |delta_rank| descending
\* and at most 5 are kept, so movers kept + unmatched <= today's brand count.
C23_Movers ==
  \A n \in 1..Len(call.sections) :
    LET sec == call.sections[n]
        today == TodayBrand(sec)
        yday == YdayBrand(sec)
        unmatched == (1..Len(today)) \ MatchedToday(sec)
    IN /\ \A i \in 1..Len(sec.movers) :
            \E k \in MatchedToday(sec), j \in 1..Len(yday) :
              /\ normalize_product_name(yday[j].product_name)
                   = normalize_product_name(today[k].product_name)
              /\ sec.movers[i].product_name = today[k].product_name
              /\ sec.movers[i].today_rank = today[k].rank
              /\ sec.movers[i].yesterday_rank = yday[j].rank
              /\ sec.movers[i].delta_rank = yday[j].rank - today[k].rank
       /\ sec.unmatched_today_laneige = Cardinality(unmatched)
       /\ \A k \in unmatched : \A i \in 1..Len(sec.movers) :
            ~(/\ sec.movers[i].product_name = today[k].product_name
              /\ sec.movers[i].today_rank = today[k].rank)
       /\ \A i, j \in 1..Len(sec.movers) :
            i < j => Abs(sec.movers[i].delta_rank) >= Abs(sec.movers[j].delta_rank)
       /\ Len(sec.movers) <= MAX_MOVERS
       /\ Len(sec.movers) = IF Cardinality(MatchedToday(sec)) < MAX_MOVERS
                            THEN Cardinality(MatchedToday(sec)) ELSE MAX_MOVERS
       /\ \A k \in MatchedToday(sec) :
            \/ \E i \in 1..Len(sec.movers) : sec.movers[i].today_rank = today[k].rank
            \/ \E j \in 1..Len(yday) :
                 /\ normalize_product_name(yday[j].product_name)
                      = normalize_product_name(today[k].product_name)
                 /\ \A i \in 1..Len(sec.movers) :
                      Abs(sec.movers[i].delta_rank) >= Abs(yday[j].rank - today[k].rank)
       /\ Len(sec.movers) + sec.unmatched_today_laneige <= Len(today)

\* rank 20 -> 8 under two spellings of the name: a mover with delta_rank +12
\* sorted before the mover that stayed at its rank
C23_Witness ==
  /\ call.returned
  /\ \E n \in 1..Len(call.sections) :
       /\ Len(call.sections[n].movers) = 2
       /\ call.sections[n].movers[1].yesterday_rank = 20
       /\ call.sections[n].movers[1].today_rank = 8
       /\ call.sections[n].movers[1].delta_rank = 12
       /\ call.sections[n].movers[2].delta_rank = 0
       /\ call.sections[n].movers[2].today_rank < call.sections[n].movers[1].today_rank

\* six matched brand items: the five with the largest |delta_rank| are kept
C23_WitnessCut ==
  /\ call.returned
  /\ \E n \in 1..Len(call.sections) :
       /\ Cardinality(MatchedToday(call.sections[n])) = MAX_MOVERS + 1
       /\ Len(call.sections[n].movers) = MAX_MOVERS
       /\ call.sections[n].movers[1].delta_rank > call.sections[n].movers[MAX_MOVERS].delta_rank
       /\ call.sections[n].movers[MAX_MOVERS].delta_rank > 0

\* a today brand item without a match: counted, and in no mover
C23_WitnessUnmatched ==
  /\ call.returned
  /\ \E n \in 1..Len(call.sections) :
       /\ call.sections[n].unmatched_today_laneige = 1
       /\ call.sections[n].movers = <<>>
       /\ call.sections[n].count_yesterday >= 1


\* C28: every emitted section compares two different snapshots: the snapshot
\* used as today is strictly later than the one used as yesterday, so a
\* category without a snapshot after the yesterday target is not reported as
\* a section whose today and yesterday data are the same snapshot.
C28_TwoDifferentSnapshots ==
  \A k \in 1..Len(call.sections) :
    /\ call.sections[k].today_snapshot.id # call.sections[k].yesterday_snapshot.id
    /\ call.sections[k].today_snapshot.time > call.sections[k].yesterday_snapshot.time


(***************************************************************************)
(* The previews of the retrieved chunks (specification SpecRag).           *)
(***************************************************************************)
\* C25: in the context a builder returns, each retrieved chunk is shown cut
\* to the preview length (500 characters in the chat context, 600 in the
\* custom report context) with the truncation marker "..." appended when the
\* content was cut; a chunk whose content fits within the preview length is
\* shown in full without the marker.
C25_MarkerOnlyWhenCut ==
  (ContextCall /\ call.error = None) =>
    \A p \in 1..Len(call.context) :
      call.context[p].tag = RetrievedTag =>
        \A i \in 1..Len(call.context[p].lines) :
          LET content == call.results[i].content
              limit == IF call.name = "build_context_for_chat" THEN 500 ELSE 600
          IN call.context[p].lines[i].content =
               IF Len(content) <= limit THEN content
               ELSE SubSeq(content, 1, limit) \o <<".", ".", ".">>


(***************************************************************************)
(* Specification SpecReview: build_review_products on a list of changes    *)
(* as build_laneige_changes returns it and a table of aspects.             *)
(***************************************************************************)
\* the changes: up to six products, each new in the run or moved by 7 ranks
ReviewProductNames == <<"A", "B", "C", "D", "E", "F">>
ReviewChange(k, moved) ==
  [product_id |-> k, product_snapshot_id |-> 100 + k,
   product_name |-> ReviewProductNames[k],
   delta |-> IF moved
             THEN << [rank_1 |-> <<7>>, rank_2 |-> <<>>, review_count |-> 0] >>
             ELSE <<>>,
   note |-> IF moved THEN None ELSE "NEW_PRODUCT_IN_RUN"]
ReviewChangeLists ==
  UNION { { SortChanges([k \in 1..n |-> ReviewChange(k, moved[k])]) :
            moved \in [1..n -> BOOLEAN] } : n \in 0..Len(ReviewProductNames) }

\* the aspects of the first product: any of seven rows; the second product
\* has one aspect below the volume floor, the others have none
AspectPool ==
  { AspectRow(101, "scent", 30, 11), AspectRow(101, "price", 29, 11),
    AspectRow(101, "texture", 100, 34), AspectRow(101, "size", 100, 35),
    AspectRow(101, "none", 0, 0), AspectRow(101, "sticky", 40, 40),
    AspectRow(101, "leak", 100, 40) }
AspectTables == { rows \cup {AspectRow(102, "price", 29, 29)} : rows \in SUBSET AspectPool }

InitReview ==
  /\ rag_docs = <<>>
  /\ rag_doc_chunks = <<>>
  /\ clock = 0
  /\ runs = 0
  /\ pc = [p \in Procs |-> "idle"]
  /\ report_day = [p \in Procs |-> NoDate]
  /\ save = [p \in Procs |-> FALSE]
  /\ final_md = [p \in Procs |-> <<>>]
  /\ chunks = [p \in Procs |-> <<>>]
  /\ tx = [p \in Procs |-> <<>>]
  /\ exc = [p \in Procs |-> None]
  /\ result = [p \in Procs |-> NoResult]
  /\ raised = [p \in Procs |-> FALSE]
  /\ trail = [p \in Procs |-> NoTrail]
  /\ latest_body = [d \in ReportDays |-> <<>>]
  /\ ops = 0
  /\ op = NoOp
  /\ upserted = [id \in StoreDocIds |-> <<>>]
  /\ \E changes \in ReviewChangeLists, aspect_rows \in AspectTables :
       call = [name |-> "build_review_products",
               laneige_changes |-> [ok |-> TRUE, changes |-> changes],
               aspect_details |-> aspect_rows, review_products |-> <<>>,
               returned |-> FALSE]

\* review_products = build_review_products(laneige_changes)
BuildReviewProducts ==
  /\ call.name = "build_review_products"
  /\ ~call.returned
  /\ \E review_products \in build_review_products(call.laneige_changes,
                                                  call.aspect_details) :
       call' = [call EXCEPT !.review_products = review_products, !.returned = TRUE]
  /\ UNCHANGED <<rag_docs, rag_doc_chunks, clock, ops, op, upserted, daily_vars>>

NextReview ==
  \/ BuildReviewProducts

SpecReview == InitReview /\ [][NextReview]_vars

\* the change record of a product, and the aspects of its snapshot that
\* qualify: mention_negative / mention_total >= 0.35 and mention_total >= 30
ChangeOfProduct(product_id) ==
  call.laneige_changes.changes[
    CHOOSE k \in 1..Len(call.laneige_changes.changes) :
      call.laneige_changes.changes[k].product_id = product_id]
Qualifying(product_id) ==
  {a \in call.aspect_details :
     /\ a.product_snapshot_id = ChangeOfProduct(product_id).product_snapshot_id
     /\ a.mention_total >= 30
     /\ 100 * a.mention_negative >= 35 * a.mention_total}

\* C24: the review-risk selector outputs one entry for each of the top 5
\* change records by significance (output length = min(5, number of change
\* records)), products without a qualifying aspect included; the aspects kept
\* for a product are those with mention_negative / mention_total >= 0.35 and
\* mention_total >= 30, sorted by risk_score = neg_ratio x mention_total
\* descending and cut to at most 3.
C24_ReviewSelector ==
  (call.name = "build_review_products" /\ call.returned) =>
    LET changes == call.laneige_changes.changes
        out == call.review_products
        selected == {out[i].product_id : i \in 1..Len(out)}
    IN /\ Len(out) = IF Len(changes) < 5 THEN Len(changes) ELSE 5
       /\ Cardinality(selected) = Len(out)
       /\ \A i \in 1..Len(out) : \E k \in 1..Len(changes) :
            /\ changes[k].product_id = out[i].product_id
            /\ changes[k].delta = out[i].delta
       /\ \A i, j \in 1..Len(out) :
            i < j => Significance(ChangeOfProduct(out[i].product_id))
                       >= Significance(ChangeOfProduct(out[j].product_id))
       /\ \A i \in 1..Len(out) : \A k \in 1..Len(changes) :
            changes[k].product_id \notin selected
              => Significance(ChangeOfProduct(out[i].product_id))
                   >= Significance(changes[k])
       /\ \A i \in 1..Len(out) :
            LET kept == out[i].aspects
                qualifying == Qualifying(out[i].product_id)
            IN /\ Len(kept) = IF Cardinality(qualifying) < 3
                              THEN Cardinality(qualifying) ELSE 3
               /\ \A n \in 1..Len(kept) : \E a \in qualifying :
                    /\ a.aspect_name = kept[n].aspect_name
                    /\ a.mention_total = kept[n].mention_total
                    /\ a.mention_negative = kept[n].mention_negative
               /\ \A n, m \in 1..Len(kept) :
                    /\ n < m => FracGE(kept[n].risk_score, kept[m].risk_score)
                    /\ n # m => kept[n].aspect_name # kept[m].aspect_name
               /\ \A a \in qualifying :
                    \/ \E n \in 1..Len(kept) : kept[n].aspect_name = a.aspect_name
                    \/ \A n \in 1..Len(kept) :
                         kept[n].mention_negative >= a.mention_negative

\* six changes, five entries; the first product keeps the aspect with 30
\* mentions and 11 negative ones and drops the one with 29 and 11 and the one
\* with 100 and 34; the second product has an entry without aspects
C24_Witness ==
  /\ call.name = "build_review_products" /\ call.returned
  /\ Len(call.laneige_changes.changes) = 6
  /\ Len(call.review_products) = 5
  /\ \E i, j \in 1..5 :
       /\ call.review_products[i].product_id = 1
       /\ Len(call.review_products[i].aspects) = 1
       /\ call.review_products[i].aspects[1].mention_total = 30
       /\ call.review_products[i].aspects[1].mention_negative = 11
       /\ Cardinality({a \in call.aspect_details : a.product_snapshot_id = 101}) = 3
       /\ call.review_products[j].product_id = 2
       /\ call.review_products[j].aspects = <<>>

\* four qualifying aspects: the three with the highest risk_score are kept
C24_WitnessCut ==
  /\ call.name = "build_review_products" /\ call.returned
  /\ \E i \in 1..Len(call.review_products) :
       /\ Cardinality(Qualifying(call.review_products[i].product_id)) = 4
       /\ Len(call.review_products[i].aspects) = 3
       /\ call.review_products[i].aspects[3].mention_negative = 35


(***************************************************************************)
(* Specification SpecSplit: the hard-split loop of the chunker, one        *)
(* iteration per step, for any max_chars >= 1 and overlap >= 0.            *)
(***************************************************************************)
\* the paragraphs (stripped, not empty) and the parameters of the calls
SplitParagraphs == { [i \in 1..n |-> Letters[i]] : n \in 1..MaxTextLen }
SplitMaxChars == 1..ChunkMaxChars
SplitOverlaps == 0..(ChunkMaxChars + 1)

InitSplit ==
  /\ rag_docs = <<>>
  /\ rag_doc_chunks = <<>>
  /\ clock = 0
  /\ runs = 0
  /\ pc = [p \in Procs |-> "idle"]
  /\ report_day = [p \in Procs |-> NoDate]
  /\ save = [p \in Procs |-> FALSE]
  /\ final_md = [p \in Procs |-> <<>>]
  /\ chunks = [p \in Procs |-> <<>>]
  /\ tx = [p \in Procs |-> <<>>]
  /\ exc = [p \in Procs |-> None]
  /\ result = [p \in Procs |-> NoResult]
  /\ raised = [p \in Procs |-> FALSE]
  /\ trail = [p \in Procs |-> NoTrail]
  /\ latest_body = [d \in ReportDays |-> <<>>]
  /\ ops = 0
  /\ op = NoOp
  /\ upserted = [id \in StoreDocIds |-> <<>>]
  /\ \E para \in SplitParagraphs, max_chars \in SplitMaxChars, overlap \in SplitOverlaps :
       call = [name |-> "hard_split", p |-> para, max_chars |-> max_chars,
               overlap |-> overlap, chunks |-> <<>>, buf |-> <<>>, left |-> FALSE]

\* one iteration of the while loop (followed for MaxSplitSteps iterations)
SplitStep ==
  /\ call.name = "hard_split"
  /\ ~call.left
  /\ Len(call.p) > call.max_chars
  /\ Len(call.chunks) < MaxSplitSteps
  /\ LET after == HardSplitStep(call.p, call.chunks, call.max_chars, call.overlap)
     IN call' = [call EXCEPT !.p = after.p, !.chunks = after.chunks]
  /\ UNCHANGED <<rag_docs, rag_doc_chunks, clock, ops, op, upserted, daily_vars>>

\* the loop condition is false: buf = p
SplitLeave ==
  /\ call.name = "hard_split"
  /\ ~call.left
  /\ Len(call.p) <= call.max_chars
  /\ call' = [call EXCEPT !.buf = call.p, !.left = TRUE]
  /\ UNCHANGED <<rag_docs, rag_doc_chunks, clock, ops, op, upserted, daily_vars>>

NextSplit ==
  \/ SplitStep
  \/ SplitLeave

SpecSplit == InitSplit /\ [][NextSplit]_vars

\* C26: the chunker terminates for every text and every max_chars >= 1 and
\* overlap >= 0: each step of the hard-split loop strictly shortens the
\* remaining paragraph.
C26_SplitStepShortens ==
  [][(call.name = "hard_split" /\ call'.chunks # call.chunks)
       => Len(call'.p) < Len(call.p)]_vars


\* C27: when the headline comes from the rank-change rule, the delta it
\* reports belongs to a record with the largest max(|delta rank_1|, |delta
\* rank_2|) and its absolute value is that maximum; the headline never
\* reports a delta of 0, and the direction it states (rise for a positive
\* value, fall otherwise) is that of the largest delta.
C27_HeadlineReportsLargestDelta ==
  (Reached("insight") /\ call.one_line.kind = "rank") =>
    /\ call.one_line.value # 0
    /\ Abs(call.one_line.value) = LargestRankMove
    /\ \E i \in 1..Len(call.laneige_changes.changes) :
         /\ call.laneige_changes.changes[i].product_name = call.one_line.subject
         /\ RankMoveOf(call.laneige_changes.changes[i]) = LargestRankMove
         /\ <<call.one_line.value>> \in {call.laneige_changes.changes[i].delta[1].rank_1,
                                         call.laneige_changes.changes[i].delta[1].rank_2}


\* C29: a review-count spike is always detected: whenever a product of the
\* latest run has a counterpart in the preceding run and its review_count
\* grew by 50 or more, the review-spike reason is reported and the review
\* section is included, whether or not its rank_1 and rank_2 changed.
C29_SpikeAlwaysDetected ==
  (Reached("decided") /\ call.laneige_changes.ok) =>
    ((\E t \in LatestRows : \E p \in Counterparts(t) :
        t.review_count - p.review_count >= REVIEW_COUNT_SPIKE)
     => /\ call.include_review
        /\ \E i \in 1..Len(call.review_reasons) :
             call.review_reasons[i] = "review count spike")


(***************************************************************************)
(* The save argument of run_daily_report (specification Spec).             *)
(***************************************************************************)
\* the step is taken by invocation p
StepOf(p) == pc'[p] # pc[p]

\* the positions of ingest_doc_to_rag inside save_daily_report
Ingesting == {"delete", "embed", "insert"}

\* C30: a run with save = false leaves the store unchanged and returns a
\* result without a document id, with chunk count 0, with the headline and the
\* final text; a run with save = true writes the store only after the LLM call
\* returned, the document upsert first and the chunk ingest after it.
C30_SaveSwitch ==
  [][\A p \in Procs :
       StepOf(p) =>
         /\ ~save'[p] =>
              /\ rag_docs' = rag_docs
              /\ rag_doc_chunks' = rag_doc_chunks
              /\ (pc'[p] = "done" /\ result'[p].ok) =>
                   /\ result'[p].doc_id = None
                   /\ result'[p].chunk_count = 0
                   /\ result'[p].one_line_insight # None
                   /\ trail[p].built
                   /\ trail'[p].llm_called
                   /\ result'[p].final_md = final_md'[p]
         /\ (rag_docs' # rag_docs \/ rag_doc_chunks' # rag_doc_chunks) =>
              /\ save[p]
              /\ trail[p].llm_called
         /\ rag_docs' # rag_docs => pc[p] = "upsert"
         /\ rag_doc_chunks' # rag_doc_chunks =>
              /\ pc[p] \in MidSave
              /\ DocsWithId(rag_docs, DailyId(p)) # <<>>
         /\ (pc'[p] \in Ingesting /\ pc[p] \notin Ingesting) =>
              /\ pc[p] = "upsert"
              /\ rag_docs' # rag_docs
              /\ DocsWithId(rag_docs', DailyId(p)) # <<>>]_vars

\* a run without save has returned its text while the store holds no chunk and
\* no report of any invocation's day
C30_Witness ==
  \E p \in Procs :
    /\ pc[p] = "done"
    /\ ~save[p]
    /\ result[p].ok
    /\ result[p].doc_id = None
    /\ result[p].chunk_count = 0
    /\ result[p].final_md \in Bodies
    /\ rag_doc_chunks = <<>>
    /\ \A q \in Procs : DocsWithId(rag_docs, DailyId(q)) = <<>>

\* a run with save has upserted the document and committed its chunks
C30_WitnessSaved ==
  \E p \in Procs :
    /\ pc[p] = "done"
    /\ save[p]
    /\ result[p].ok
    /\ result[p].doc_id = DailyId(p)
    /\ result[p].chunk_count > 0
    /\ DocsWithId(rag_docs, DailyId(p)) # <<>>
    /\ ChunksOfDoc(rag_doc_chunks, DailyId(p)) # <<>>

=============================================================================
